---- MODULE Spec2Model ----
(***************************************************************************)
(* The planar linkage solver of app/kinematics/linkage_solver.py:          *)
(* _build_internal_model (points + rigid bodies -> edges, fixed flags,     *)
(* driver), _solve_with_edges (position-based relaxation over a sweep of   *)
(* shock strokes) and solve_bike_linkage, as a state machine.              *)
(*                                                                         *)
(* Numbers.  The code computes in IEEE doubles; the model computes in      *)
(* exact rationals <<n, d>> (d > 0, lowest terms).  The inputs are kept on *)
(* one line through the origin whose direction has a rational length, so   *)
(* that every math.hypot the solver takes has a rational value and the     *)
(* model's pose is the exact value the doubles approximate.                *)
(* Python's None is the empty tuple, a present value v is <<v>>; indices   *)
(* are 1-based, with 0 for a None index.                                   *)
(***************************************************************************)
EXTENDS Integers, Sequences, FiniteSets, TLC

VARIABLES
    points,          \* argument: list of BikePoint
    bodies,          \* argument: list of RigidBody
    arg_n_steps,     \* argument n_steps, as passed
    arg_iterations,  \* argument iterations, as passed
    pc,              \* "call" | "relax" | "record" | "done"
    edges,           \* List[LinkEdge] of this call
    fixed,           \* fixed flag per point index
    rear_axle_idx,   \* index of the rear axle point, 0 when None
    driver_edge_idx, \* index of the driver edge, 0 when None
    driver_L0,       \* rest length of the driver
    driver_stroke,   \* total stroke of the driver
    x, y,            \* the position arrays of _solve_with_edges
    n_steps,         \* local n_steps = max(1, n_steps)
    iterations,      \* local iterations = max(1, iterations)
    step_i,          \* outer loop variable
    iter,            \* relaxation iterations completed in this step
    ei,              \* next edge of the current iteration
    steps,           \* List[SolverStep] built so far
    error,           \* "none", or the ValueError raised
    returned,        \* TRUE once a SolverResult has been returned
    rear_axle_point_id, \* SolverResult.rear_axle_point_id once returned
    passes,          \* history: completed passes over the edge list
    corrections,     \* history: edge corrections executed
    prev_x, prev_y,  \* history: positions before the last correction
    last_edge,       \* history: index of the last corrected edge, 0 if none
    target_L,        \* the target length of the last correction; 0 before it
    iter_start,      \* history: <<x, y>> when the iteration under way began
    parked,          \* the frame of a second, suspended call; <<>> if none
    earlier,         \* history: arguments and outcome of the finished calls
    calls,           \* history: calls started so far
    switches,        \* history: switches between the two running calls
    same_inputs,     \* the two running calls were passed the same list objects
    bike,            \* the bike document of the bikes collection; <<>> if none
    kin,             \* locals of the compute_bike_kinematics request under way
    response,        \* the last HTTP response; <<>> before the first
    clock,           \* datetime.utcnow(), as a counter
    shed,            \* the shed document of the sheds collection; <<>> if none
    bike_owners,     \* user_id of every document of the bikes collection
    shed_reqs,       \* per client: locals of its shed request under way
    shed_resp,       \* per client: the last response to a shed request
    shed_ops,        \* history: shed requests started
    shed_calls,      \* history: per client, the shed request it began last
    pts_req,         \* locals of the update_bike_points request under way
    pts_resp,        \* the last response of update_bike_points; <<>> if none
    pts_committed,   \* history: the points of the last committed points update
    media,           \* the documents of the media_items collection
    hero_reqs,       \* per client: locals of its hero image request under way
    hero_resp,       \* per client: the last response to a hero image request
    hero_ops,        \* history: hero image requests started
    bike_reqs,       \* per client: locals of its bikes-router request under way
    bike_resp,       \* per client: the last response to such a request
    bike_ops         \* history: such requests started

vars == <<points, bodies, arg_n_steps, arg_iterations, pc, edges, fixed,
          rear_axle_idx, driver_edge_idx, driver_L0, driver_stroke, x, y,
          n_steps, iterations, step_i, iter, ei, steps, error, returned,
          rear_axle_point_id, passes, corrections, prev_x, prev_y, last_edge,
          target_L, iter_start, parked, earlier, calls, switches, same_inputs,
          bike, kin, response, clock,
          shed, bike_owners, shed_reqs, shed_resp, shed_ops, shed_calls, pts_req,
          pts_resp,
          pts_committed, media, hero_reqs, hero_resp, hero_ops, bike_reqs,
          bike_resp, bike_ops>>

\* What lives outside the frame of one call of solve_bike_linkage.
callerVars == <<parked, earlier, calls, switches, same_inputs>>

\* The state of the web service around the solver.
routerVars == <<bike, kin, response, clock>>

\* The state of the sheds router.
shedVars == <<shed, bike_owners, shed_reqs, shed_resp, shed_ops, shed_calls>>

\* The state of the update_bike_points request.
pointsVars == <<pts_req, pts_resp, pts_committed>>

\* The state of the media router.
mediaVars == <<media, hero_reqs, hero_resp, hero_ops>>

\* The state of the requests of the bikes router that run no solver:
\* update_bodies, update_rear_center, update_front_center,
\* update_wheelbase, update_scale_source and delete_bike.
bikeReqVars == <<bike_reqs, bike_resp, bike_ops>>

\* The clients whose requests are in flight together.
Clients == {1, 2}

(***************************************************************************)
(* Exact rational arithmetic.                                              *)
(***************************************************************************)
None == <<>>
Some(v) == <<v>>

Abs(n) == IF n < 0 THEN -n ELSE n

RECURSIVE GCD(_, _)
GCD(a, b) == IF b = 0 THEN a ELSE GCD(b, a % b)

Norm(n, d) ==
    LET g == GCD(Abs(n), Abs(d))
        s == IF d < 0 THEN -1 ELSE 1
    IN  <<s * (n \div g), s * (d \div g)>>

Q(n) == <<n, 1>>
Frac(n, d) == Norm(n, d)
Zero == <<0, 1>>

NegQ(p) == <<-p[1], p[2]>>

AddQ(p, q) ==
    LET g == GCD(p[2], q[2])
        l == (p[2] \div g) * q[2]
    IN  Norm(p[1] * (l \div p[2]) + q[1] * (l \div q[2]), l)

SubQ(p, q) == AddQ(p, NegQ(q))

MulQ(p, q) ==
    LET g1 == GCD(Abs(p[1]), q[2])
        g2 == GCD(Abs(q[1]), p[2])
    IN  IF p[1] = 0 \/ q[1] = 0 THEN Zero
        ELSE <<(p[1] \div g1) * (q[1] \div g2), (p[2] \div g2) * (q[2] \div g1)>>

RecipQ(p) == IF p[1] > 0 THEN <<p[2], p[1]>> ELSE <<-p[2], -p[1]>>

DivQ(p, q) == MulQ(p, RecipQ(q))

\* -1, 0 or 1 as a/b is below, equal to or above c/d (b, d > 0), by comparing
\* integer parts and then the reciprocals of the fractional parts.
RECURSIVE Cmp(_, _, _, _)
Cmp(a, b, c, d) ==
    LET qa == a \div b
        qc == c \div d
        ra == a % b
        rc == c % d
    IN  IF qa < qc THEN -1
        ELSE IF qa > qc THEN 1
        ELSE IF ra = 0 /\ rc = 0 THEN 0
        ELSE IF ra = 0 THEN -1
        ELSE IF rc = 0 THEN 1
        ELSE Cmp(d, rc, b, ra)

CmpQ(p, q) == Cmp(p[1], p[2], q[1], q[2])
LtQ(p, q) == CmpQ(p, q) < 0
LeQ(p, q) == CmpQ(p, q) <= 0
GtQ(p, q) == CmpQ(p, q) > 0

\* Python's max(a, b): b when b > a, else a.
MaxQ(a, b) == IF GtQ(b, a) THEN b ELSE a

AbsQ(p) == <<Abs(p[1]), p[2]>>

\* The largest r with r * r <= n, for n >= 0.
RECURSIVE ISqrtIn(_, _, _)
ISqrtIn(n, lo, hi) ==
    IF lo >= hi THEN lo
    ELSE LET mid == (lo + hi + 1) \div 2
         IN  IF mid <= n \div mid THEN ISqrtIn(n, mid, hi)
             ELSE ISqrtIn(n, lo, mid - 1)

ISqrt(n) == IF n < 2 THEN n ELSE ISqrtIn(n, 1, n)

IsSquare(n) == ISqrt(n) * ISqrt(n) = n

\* math.hypot(dx, dy).  With g the gcd of the two numerators over the common
\* denominator l, hypot = g * sqrt(a*a + b*b) / l; the square root is exact
\* for every pair the model's inputs produce (HypotExact).
HypotParts(dx, dy) ==
    LET gl == GCD(dx[2], dy[2])
        l == (dx[2] \div gl) * dy[2]
        a == Abs(dx[1]) * (l \div dx[2])
        b == Abs(dy[1]) * (l \div dy[2])
        g == GCD(a, b)
    IN  IF g = 0 THEN [g |-> 0, l |-> 1, s |-> 0]
        ELSE [g |-> g, l |-> l,
              s |-> (a \div g) * (a \div g) + (b \div g) * (b \div g)]

HypotExact(dx, dy) == IsSquare(HypotParts(dx, dy).s)

Hypot(dx, dy) ==
    LET h == HypotParts(dx, dy)
    IN  Norm(h.g * ISqrt(h.s), h.l)

(***************************************************************************)
(* _build_internal_model: BikePoint + RigidBody -> edges + flags.          *)
(* A point is [id, type, x, y]; a body is [point_ids, type, closed,        *)
(* length0, stroke]; an edge is [ia, ib, L0, is_shock].                    *)
(***************************************************************************)
ErrNone == "none"
ErrNoPoints == "No points defined for this bike."
ErrNoBodies == "No rigid bodies defined for this bike."
ErrDupIds == "BikePoint IDs must be unique."
ErrUnknownPid == "RigidBody references unknown point <pid>."
ErrUnknownPoint == "RigidBody references unknown point."
ErrNoStroke == "Shock body must define 'stroke'."
ErrMultiShock == "Multiple shock bodies found; only one driver is supported."
ErrNoShock == "No shock body found; need exactly one RigidBody with type='shock'."

LinkEdge(ia, ib, L0, is_shock) ==
    [ia |-> ia, ib |-> ib, L0 |-> L0, is_shock |-> is_shock]

\* The keys of idx = {p.id: i for i, p in enumerate(points)}.
IdSet(pts) == {pts[i].id : i \in DOMAIN pts}

\* idx[id]: a later point with the same id overwrites an earlier one.
IdxOf(pts, id) ==
    CHOOSE i \in DOMAIN pts :
        /\ pts[i].id = id
        /\ \A j \in DOMAIN pts : pts[j].id = id => j <= i

\* p.type == "fixed"
PointFixed_fixedOnly(p) == p.type = "fixed"

\* fixed = [p.type in ("fixed", "bb") for p in points]
PointFixed(p) == p.type \in {"fixed", "bb"}

\* The last point of type rear_axle taken as the reference.
RearAxleIdx_last(pts) ==
    IF \E i \in DOMAIN pts : pts[i].type = "rear_axle"
    THEN CHOOSE i \in DOMAIN pts :
            /\ pts[i].type = "rear_axle"
            /\ \A j \in DOMAIN pts : pts[j].type = "rear_axle" => i >= j
    ELSE 0

\* next((i for i, p in enumerate(points) if p.type == "rear_axle"), None)
RearAxleIdx(pts) ==
    IF \E i \in DOMAIN pts : pts[i].type = "rear_axle"
    THEN CHOOSE i \in DOMAIN pts :
            /\ pts[i].type = "rear_axle"
            /\ \A j \in DOMAIN pts : pts[j].type = "rear_axle" => i <= j
    ELSE 0

\* A body takes part only with at least two point ids.
BodySkipped(body) == Len(body.point_ids) < 2

\* A wrap-around pair for every closed chain, whatever its length.
SegPairs_closed(body) ==
    LET pids == body.point_ids
        n == Len(pids)
        base == [k \in 1..(n - 1) |-> <<pids[k], pids[k + 1]>>]
    IN  IF body.closed THEN Append(base, <<pids[n], pids[1]>>)
        ELSE base

\* list(zip(pids, pids[1:])), plus the wrap-around pair of a closed chain.
SegPairs(body) ==
    LET pids == body.point_ids
        n == Len(pids)
        base == [k \in 1..(n - 1) |-> <<pids[k], pids[k + 1]>>]
    IN  IF body.closed /\ n > 2 THEN Append(base, <<pids[n], pids[1]>>)
        ELSE base

\* A fixed body that marks nothing.
MarkFixed_none(pts, pids, j, acc) == acc

\* for pid in pids: raise on an unknown id, else fixed[idx[pid]] = True
RECURSIVE MarkFixed(_, _, _, _)
MarkFixed(pts, pids, j, acc) ==
    IF j > Len(pids) THEN acc
    ELSE IF pids[j] \notin IdSet(pts) THEN [acc EXCEPT !.err = ErrUnknownPid]
    ELSE MarkFixed(pts, pids, j + 1,
                   [acc EXCEPT !.fixed[IdxOf(pts, pids[j])] = TRUE])

\* L0 = body.length0 if body.length0 is not None else L0_geom
ShockL0(body, L0_geom) ==
    IF body.length0 # None THEN body.length0[1] ELSE L0_geom

\* L0 = body.length0 if body.length0 is not None else L0_geom, for a bar too.
BarL0_length0(body, L0_geom) ==
    IF body.length0 # None THEN body.length0[1] ELSE L0_geom

\* The rest length given to a segment of a body that is not the shock.
BarL0(body, L0_geom) == L0_geom

\* A segment with an unknown end is passed over.
OnUnknownPoint_skip(acc) == acc

\* raise ValueError: the body references an unknown point.
OnUnknownPoint(acc) == [acc EXCEPT !.err = ErrUnknownPoint]

\* No driver is ever taken to be there already.
SecondDriver_never(acc) == FALSE

\* if driver_edge_idx is not None
SecondDriver(acc) == acc.driver_edge_idx # 0

\* The driver taken to be at len(edges) after the append.
DriverIdx_after(eds) == Len(eds) + 2

\* driver_edge_idx = len(edges) - 1 after the append: the index of the edge
\* just appended to eds (indices from 1).
DriverIdx(eds) == Len(eds) + 1

\* One segment (a_id, b_id) of a body.
SegStep(pts, body, seg, acc) ==
    IF seg[1] \notin IdSet(pts) \/ seg[2] \notin IdSet(pts)
    THEN OnUnknownPoint(acc)
    ELSE LET ia == IdxOf(pts, seg[1])
             ib == IdxOf(pts, seg[2])
             dx == SubQ(pts[ib].x, pts[ia].x)
             dy == SubQ(pts[ib].y, pts[ia].y)
             L0_geom == Hypot(dx, dy)
         IN  IF body.type = "shock"
             THEN IF body.stroke = None
                  THEN [acc EXCEPT !.err = ErrNoStroke]
                  ELSE IF SecondDriver(acc)
                  THEN [acc EXCEPT !.err = ErrMultiShock]
                  ELSE [acc EXCEPT
                          !.edges = Append(@, LinkEdge(ia, ib,
                                           ShockL0(body, L0_geom), TRUE)),
                          !.driver_edge_idx = DriverIdx(acc.edges),
                          !.driver_L0 = ShockL0(body, L0_geom),
                          !.driver_stroke = body.stroke[1]]
             ELSE [acc EXCEPT
                     !.edges = Append(@, LinkEdge(ia, ib,
                                      BarL0(body, L0_geom), FALSE))]

RECURSIVE SegLoop(_, _, _, _, _)
SegLoop(pts, body, segs, j, acc) ==
    IF j > Len(segs) \/ acc.err # ErrNone THEN acc
    ELSE SegLoop(pts, body, segs, j + 1, SegStep(pts, body, segs[j], acc))

\* The body of "for body in bodies".
BodyStep(pts, body, acc) ==
    IF BodySkipped(body) THEN acc
    ELSE LET marked == IF body.type = "fixed"
                       THEN MarkFixed(pts, body.point_ids, 1, acc)
                       ELSE acc
         IN  IF marked.err # ErrNone THEN marked
             ELSE SegLoop(pts, body, SegPairs(body), 1, marked)

RECURSIVE BodyLoop(_, _, _, _)
BodyLoop(pts, bods, k, acc) ==
    IF k > Len(bods) \/ acc.err # ErrNone THEN acc
    ELSE BodyLoop(pts, bods, k + 1, BodyStep(pts, bods[k], acc))

\* The ids are never taken to repeat.
DupIds_never(pts) == FALSE

\* len(idx) != len(points)
DupIds(pts) == Cardinality(IdSet(pts)) # Len(pts)

BuildFail(e) ==
    [err |-> e, edges |-> <<>>, fixed |-> <<>>, rear_axle_idx |-> 0,
     driver_edge_idx |-> 0, driver_L0 |-> Zero, driver_stroke |-> Zero]

build_internal_model(pts, bods) ==
    IF Len(pts) = 0 THEN BuildFail(ErrNoPoints)
    ELSE IF Len(bods) = 0 THEN BuildFail(ErrNoBodies)
    ELSE IF DupIds(pts) THEN BuildFail(ErrDupIds)
    ELSE LET acc0 == [err |-> ErrNone, edges |-> <<>>,
                      fixed |-> [i \in DOMAIN pts |-> PointFixed(pts[i])],
                      rear_axle_idx |-> RearAxleIdx(pts),
                      driver_edge_idx |-> 0,
                      driver_L0 |-> Zero, driver_stroke |-> Zero]
             r == BodyLoop(pts, bods, 1, acc0)
         IN  IF r.err # ErrNone THEN BuildFail(r.err)
             ELSE IF r.driver_edge_idx = 0 THEN BuildFail(ErrNoShock)
             ELSE r

(***************************************************************************)
(* _solve_with_edges: the position-based solver.                           *)
(***************************************************************************)
\* max(1e-6, target_shock_len)
EpsTarget == <<1, 1000000>>
\* math.hypot(dx, dy) or 1e-9
EpsDist == <<1, 1000000000>>
\* abs(ds) > 1e-9
EpsStroke == <<1, 1000000000>>
\* half = 1.0
Half_one == <<1, 1>>

\* half = 0.5
Half == <<1, 2>>

\* range(n_steps)
MoreSteps_short(i, n) == i < n - 1

\* for step_i in range(n_steps + 1): whether a step follows step i.
MoreSteps(i, n) == i < n

\* range(iterations + 1)
MoreIterations_extra(done, n) == done < n + 1

\* for _ in range(iterations): whether an iteration follows `done` of them.
MoreIterations(done, n) == done < n

\* max(1, abs(n))
AtLeastOne_abs(n) == IF n > 1 THEN n ELSE IF n < -1 THEN -n ELSE 1

\* max(1, n)
AtLeastOne(n) == IF n > 1 THEN n ELSE 1

\* driver_stroke * (step_i / (n_steps + 1))
StrokeAt_short(stroke, i, n) == MulQ(stroke, Frac(i, n + 1))

\* driver_stroke * ((step_i + 1) / n_steps)
StrokeAt_next(stroke, i, n) == MulQ(stroke, Frac(i + 1, n))

\* s = driver_stroke * (step_i / n_steps)
StrokeAt(stroke, i, n) == MulQ(stroke, Frac(i, n))

\* target_shock_len = driver_L0 - s
TargetShockLen(L0, s) == SubQ(L0, s)

\* A correction that reads the positions from a copy made when the
\* iteration began.
Reads_snapshot(live, snapshot) == snapshot

\* dx = x[ib] - x[ia]: a correction reads the arrays the earlier corrections
\* have written to.
Reads(live, snapshot) == live

\* The driver target without its floor of 1e-6.
TargetL_unfloored(e, edge, didx, tsl) ==
    IF e = didx /\ edge.is_shock THEN tsl ELSE edge.L0

\* The target length of edge number e at a step whose shock target is tsl.
TargetL(e, edge, didx, tsl) ==
    IF e = didx /\ edge.is_shock THEN MaxQ(EpsTarget, tsl) ELSE edge.L0

\* dist = math.hypot(dx, dy) or 1e-9
DistOf(dx, dy) == IF Hypot(dx, dy) = Zero THEN EpsDist ELSE Hypot(dx, dy)

\* The correction with the branch "Move only B" moving A and the branch
\* "Move only A" moving B.
CorrectEdge_other(xs, ys, fx, edge, target) ==
    LET ia == edge.ia
        ib == edge.ib
        dx == SubQ(xs[ib], xs[ia])
        dy == SubQ(ys[ib], ys[ia])
        dist == DistOf(dx, dy)
        diff == DivQ(SubQ(dist, target), dist)
        fa == fx[ia]
        fb == fx[ib]
    IN  IF fa /\ fb THEN [x |-> xs, y |-> ys]
        ELSE IF fa /\ ~fb
        THEN [x |-> [xs EXCEPT ![ia] = AddQ(@, MulQ(dx, diff))],
              y |-> [ys EXCEPT ![ia] = AddQ(@, MulQ(dy, diff))]]
        ELSE IF fb /\ ~fa
        THEN [x |-> [xs EXCEPT ![ib] = SubQ(@, MulQ(dx, diff))],
              y |-> [ys EXCEPT ![ib] = SubQ(@, MulQ(dy, diff))]]
        ELSE LET x1 == [xs EXCEPT ![ia] = AddQ(@, MulQ(MulQ(dx, diff), Half))]
                 y1 == [ys EXCEPT ![ia] = AddQ(@, MulQ(MulQ(dy, diff), Half))]
             IN  [x |-> [x1 EXCEPT ![ib] = SubQ(@, MulQ(MulQ(dx, diff), Half))],
                  y |-> [y1 EXCEPT ![ib] = SubQ(@, MulQ(MulQ(dy, diff), Half))]]

\* One pass of the body of "for ei, edge in enumerate(edges)": the position
\* arrays after the correction of `edge` towards the target length.
CorrectEdge(xs, ys, fx, edge, target) ==
    LET ia == edge.ia
        ib == edge.ib
        dx == SubQ(xs[ib], xs[ia])
        dy == SubQ(ys[ib], ys[ia])
        dist == DistOf(dx, dy)
        diff == DivQ(SubQ(dist, target), dist)
        fa == fx[ia]
        fb == fx[ib]
    IN  IF fa /\ fb THEN [x |-> xs, y |-> ys]
        ELSE IF fa /\ ~fb
        THEN [x |-> [xs EXCEPT ![ib] = SubQ(@, MulQ(dx, diff))],
              y |-> [ys EXCEPT ![ib] = SubQ(@, MulQ(dy, diff))]]
        ELSE IF fb /\ ~fa
        THEN [x |-> [xs EXCEPT ![ia] = AddQ(@, MulQ(dx, diff))],
              y |-> [ys EXCEPT ![ia] = AddQ(@, MulQ(dy, diff))]]
        ELSE LET x1 == [xs EXCEPT ![ia] = AddQ(@, MulQ(MulQ(dx, diff), Half))]
                 y1 == [ys EXCEPT ![ia] = AddQ(@, MulQ(MulQ(dy, diff), Half))]
             IN  [x |-> [x1 EXCEPT ![ib] = SubQ(@, MulQ(MulQ(dx, diff), Half))],
                  y |-> [y1 EXCEPT ![ib] = SubQ(@, MulQ(MulQ(dy, diff), Half))]]

\* x and y are the coordinates of the points themselves.
InputAfter_alias(pts, xs, ys) ==
    [i \in DOMAIN pts |-> [pts[i] EXCEPT !.x = xs[i], !.y = ys[i]]]

\* The supplied points after a correction has written xs and ys: x and y are
\* lists of their own (x = [p.x for p in points]), no point is written.
InputAfter(pts, xs, ys) == pts

\* rear_travel = y[rear_axle_idx] - rear_y0
RearTravel_down(pts, ys, ridx) ==
    IF ridx # 0 THEN Some(SubQ(ys[ridx], pts[ridx].y)) ELSE None

\* rear_travel = rear_y0 - y[rear_axle_idx], None without a rear axle.
RearTravel(pts, ys, ridx) ==
    IF ridx # 0 THEN Some(SubQ(pts[ridx].y, ys[ridx])) ELSE None

\* The shock length reported as the driver's rest length.
ShockLen_rest(xs, ys, edge) == edge.L0

\* shock_len = math.hypot of the driver edge's endpoints.
ShockLen(xs, ys, edge) ==
    Hypot(SubQ(xs[edge.ib], xs[edge.ia]), SubQ(ys[edge.ib], ys[edge.ia]))

\* positions = {p.id: (x[i], y[i]) for i, p in enumerate(points)}
Positions(pts, xs, ys) ==
    [id \in IdSet(pts) |-> <<xs[IdxOf(pts, id)], ys[IdxOf(pts, id)]>>]

\* Leverage from the second step on only.
Leverage_late(i, s, rear_travel, sofar) ==
    IF i > 1 /\ rear_travel # None /\ sofar[Len(sofar)].rear_travel # None
    THEN LET ds == SubQ(s, sofar[Len(sofar)].shock_stroke)
         IN  IF GtQ(AbsQ(ds), EpsStroke)
             THEN Some(DivQ(SubQ(rear_travel[1],
                                 sofar[Len(sofar)].rear_travel[1]), ds))
             ELSE None
    ELSE None

\* Leverage via finite difference against the previous step record.
Leverage(i, s, rear_travel, sofar) ==
    IF i > 0 /\ rear_travel # None /\ sofar[Len(sofar)].rear_travel # None
    THEN LET ds == SubQ(s, sofar[Len(sofar)].shock_stroke)
         IN  IF GtQ(AbsQ(ds), EpsStroke)
             THEN Some(DivQ(SubQ(rear_travel[1],
                                 sofar[Len(sofar)].rear_travel[1]), ds))
             ELSE None
    ELSE None

SolverStep(i, s, shock_len, rear_travel, leverage, positions) ==
    [step_index |-> i, shock_stroke |-> s, shock_length |-> shock_len,
     rear_travel |-> rear_travel, leverage_ratio |-> leverage,
     points |-> positions]

\* The step record appended after the relaxation of step i.
RecordOf(pts, xs, ys, i, n, sofar, eds, ridx, didx, stroke) ==
    LET s == StrokeAt(stroke, i, n)
        rt == RearTravel(pts, ys, ridx)
    IN  SolverStep(i, s, ShockLen(xs, ys, eds[didx]), rt,
                   Leverage(i, s, rt, sofar), Positions(pts, xs, ys))

\* Every step started again from the input coordinates.
Carried_reset(live, initial) == initial

\* x and y are assigned once, before "for step_i in range(n_steps + 1)":
\* the arrays a step leaves are the arrays the next step starts with.
Carried(live, initial) == live

\* rear_axle_id = points[rear_axle_idx].id if rear_axle_idx is not None
RearAxleId(pts, ridx) == IF ridx # 0 THEN Some(pts[ridx].id) ELSE None

(***************************************************************************)
(* solve_bike_linkage as a state machine.                                  *)
(***************************************************************************)
\* The call: _build_internal_model, then the set-up of _solve_with_edges.
Build ==
    /\ pc = "call"
    /\ LET m == build_internal_model(points, bodies)
       IN  IF m.err # ErrNone
           THEN /\ pc' = "done"
                /\ error' = m.err
                /\ UNCHANGED <<edges, fixed, rear_axle_idx, driver_edge_idx,
                               driver_L0, driver_stroke, x, y, n_steps,
                               iterations, prev_x, prev_y, iter_start>>
           ELSE /\ pc' = "relax"
                /\ error' = ErrNone
                /\ edges' = m.edges
                /\ fixed' = m.fixed
                /\ rear_axle_idx' = m.rear_axle_idx
                /\ driver_edge_idx' = m.driver_edge_idx
                /\ driver_L0' = m.driver_L0
                /\ driver_stroke' = m.driver_stroke
                /\ x' = [i \in DOMAIN points |-> points[i].x]
                /\ y' = [i \in DOMAIN points |-> points[i].y]
                /\ prev_x' = [i \in DOMAIN points |-> points[i].x]
                /\ prev_y' = [i \in DOMAIN points |-> points[i].y]
                /\ iter_start' = <<[i \in DOMAIN points |-> points[i].x],
                                   [i \in DOMAIN points |-> points[i].y]>>
                /\ n_steps' = AtLeastOne(arg_n_steps)
                /\ iterations' = AtLeastOne(arg_iterations)
    /\ UNCHANGED <<points, bodies, arg_n_steps, arg_iterations, step_i, iter,
                   ei, steps, returned, rear_axle_point_id, passes,
                   corrections, last_edge, target_L>>
    /\ UNCHANGED <<callerVars, routerVars, shedVars, pointsVars, mediaVars, bikeReqVars>>

\* The correction of edge ei in the current relaxation iteration.
Relax ==
    /\ pc = "relax"
    /\ LET s == StrokeAt(driver_stroke, step_i, n_steps)
           tsl == TargetShockLen(driver_L0, s)
           tl == TargetL(ei, edges[ei], driver_edge_idx, tsl)
           began == IF ei = 1 THEN <<x, y>> ELSE iter_start
           new == CorrectEdge(Reads(x, began[1]), Reads(y, began[2]),
                              fixed, edges[ei], tl)
       IN  /\ target_L' = tl
           /\ iter_start' = began
           /\ x' = new.x
           /\ y' = new.y
           /\ points' = InputAfter(points, new.x, new.y)
    /\ prev_x' = x
    /\ prev_y' = y
    /\ last_edge' = ei
    /\ corrections' = corrections + 1
    /\ IF ei < Len(edges)
       THEN /\ ei' = ei + 1
            /\ UNCHANGED <<iter, passes, pc>>
       ELSE /\ ei' = 1
            /\ iter' = iter + 1
            /\ passes' = passes + 1
            /\ pc' = IF MoreIterations(iter + 1, iterations)
                     THEN "relax" ELSE "record"
    /\ UNCHANGED <<bodies, arg_n_steps, arg_iterations, edges, fixed,
                   rear_axle_idx, driver_edge_idx, driver_L0, driver_stroke,
                   n_steps, iterations, step_i, steps, error, returned,
                   rear_axle_point_id>>
    /\ UNCHANGED <<callerVars, routerVars, shedVars, pointsVars, mediaVars, bikeReqVars>>

\* "Record this step", then the next step or the return of the SolverResult.
Record ==
    /\ pc = "record"
    /\ steps' = Append(steps, RecordOf(points, x, y, step_i, n_steps, steps,
                                       edges, rear_axle_idx, driver_edge_idx,
                                       driver_stroke))
    /\ IF MoreSteps(step_i, n_steps)
       THEN /\ step_i' = step_i + 1
            /\ iter' = 0
            /\ pc' = "relax"
            /\ UNCHANGED <<returned, rear_axle_point_id>>
       ELSE /\ pc' = "done"
            /\ returned' = TRUE
            /\ rear_axle_point_id' = RearAxleId(points, rear_axle_idx)
            /\ UNCHANGED <<step_i, iter>>
    /\ x' = Carried(x, [i \in DOMAIN points |-> points[i].x])
    /\ y' = Carried(y, [i \in DOMAIN points |-> points[i].y])
    /\ UNCHANGED <<points, bodies, arg_n_steps, arg_iterations, edges, fixed,
                   rear_axle_idx, driver_edge_idx, driver_L0, driver_stroke,
                   n_steps, iterations, ei, error, passes, corrections,
                   prev_x, prev_y, last_edge, target_L, iter_start>>
    /\ UNCHANGED <<callerVars, routerVars, shedVars, pointsVars, mediaVars, bikeReqVars>>

Next == Build \/ Relax \/ Record

\* The state at the call, for given arguments.
CallWith(pts, bods, ns, its) ==
    /\ points = pts
    /\ bodies = bods
    /\ arg_n_steps = ns
    /\ arg_iterations = its
    /\ pc = "call"
    /\ edges = <<>>
    /\ fixed = <<>>
    /\ rear_axle_idx = 0
    /\ driver_edge_idx = 0
    /\ driver_L0 = Zero
    /\ driver_stroke = Zero
    /\ x = <<>>
    /\ y = <<>>
    /\ n_steps = 0
    /\ iterations = 0
    /\ step_i = 0
    /\ iter = 0
    /\ ei = 1
    /\ steps = <<>>
    /\ error = ErrNone
    /\ returned = FALSE
    /\ rear_axle_point_id = None
    /\ passes = 0
    /\ corrections = 0
    /\ prev_x = <<>>
    /\ prev_y = <<>>
    /\ last_edge = 0
    /\ target_L = Zero
    /\ iter_start = <<>>

\* One call, with nothing before it and nothing beside it.
SingleCall ==
    /\ parked = <<>>
    /\ earlier = {}
    /\ calls = 1
    /\ switches = 0
    /\ same_inputs = FALSE

\* No shed request: an empty sheds collection and no client.
NoSheds ==
    /\ shed = <<>>
    /\ bike_owners = <<>>
    /\ shed_reqs = <<>>
    /\ shed_resp = <<>>
    /\ shed_ops = 0
    /\ shed_calls = <<>>

\* No update_bike_points request and no media.
NoPointsRequest ==
    /\ pts_req = <<>>
    /\ pts_resp = <<>>
    /\ pts_committed = <<>>

NoHeroRequests ==
    /\ hero_reqs = <<>>
    /\ hero_resp = <<>>
    /\ hero_ops = 0

NoMedia ==
    /\ media = {}
    /\ NoHeroRequests

\* No request of the bikes router beside the solver's, and no client.
NoBikeRequests ==
    /\ bike_reqs = <<>>
    /\ bike_resp = <<>>
    /\ bike_ops = 0

\* The clients of the bikes router, none with a request under way.
BikeClientsIdle ==
    /\ bike_reqs = [c \in Clients |-> <<>>]
    /\ bike_resp = [c \in Clients |-> <<>>]
    /\ bike_ops = 0

\* No web service around the call.
NoServer ==
    /\ bike = <<>>
    /\ kin = <<>>
    /\ response = <<>>
    /\ clock = 0
    /\ NoSheds
    /\ NoPointsRequest
    /\ NoMedia
    /\ NoBikeRequests

(***************************************************************************)
(* The calls explored.  Three points a, b, c lie at 0, u and 2u on a line  *)
(* of direction u; one shock body joins a and b, and up to MaxOther other  *)
(* bodies stand before or after it in the body list.                       *)
(***************************************************************************)
MaxSteps == 2
MaxIter == 2
MaxOther == 1

BikePoint(id, type, px, py) == [id |-> id, type |-> type, x |-> px, y |-> py]

RigidBody(pids, type, closed, length0, stroke) ==
    [point_ids |-> pids, type |-> type, closed |-> closed,
     length0 |-> length0, stroke |-> stroke]

SeqsUpTo(S, n) == UNION {[1..k -> S] : k \in 0..n}

\* Directions u = (ux, uy): along the y axis and along (3, 4).
Dirs == {<<Q(0), Q(3)>>, <<Q(3), Q(4)>>}

\* A spacing along the y axis below the 1e-6 floor of the shock target.
TinyDirs == {<<Q(0), Frac(1, 2000000)>>}

PointListsOn(dirs) ==
    {<<BikePoint("a", ta, Zero, Zero),
       BikePoint("b", tb, u[1], u[2]),
       BikePoint("c", tc, MulQ(Q(2), u[1]), MulQ(Q(2), u[2]))>> :
        ta \in {"fixed", "bb", "front_axle"},
        tb \in {"free", "rear_axle"},
        tc \in {"free", "rear_axle"},
        u \in dirs}

\* Point lists in which two points coincide: b on a, or c on b.
CoincidentPointLists ==
    {<<BikePoint("a", ta, Zero, Zero),
       BikePoint("b", tb, Zero, pb),
       BikePoint("c", "free", Zero, Q(3))>> :
        ta \in {"fixed", "front_axle"},
        tb \in {"free", "rear_axle"},
        pb \in {Zero, Q(3)}}

Strokes == {Q(-1), Q(0), Q(1)}

ShockBodiesWith(l0s, strokes) ==
    {RigidBody(<<"a", "b">>, "shock", FALSE, l0, Some(st)) :
        l0 \in l0s, st \in strokes}

OtherBodies ==
    {RigidBody(pids, ty, FALSE, None, None) :
        pids \in {<<"b">>, <<"b", "c">>, <<"a", "b", "c">>},
        ty \in {"bar", "fixed"}}
    \cup {RigidBody(<<"a", "b", "c">>, ty, TRUE, None, None) :
            ty \in {"bar", "fixed"}}
    \cup {RigidBody(<<"b">>, "shock", FALSE, None, None)}

\* The bodies before and after the shock body.
Surroundings ==
    {ba \in SeqsUpTo(OtherBodies, MaxOther) \X SeqsUpTo(OtherBodies, MaxOther) :
        Len(ba[1]) + Len(ba[2]) <= MaxOther}

BodyListsWith(shocks) ==
    {ba[1] \o <<sh>> \o ba[2] : sh \in shocks, ba \in Surroundings}

\* The (points, bodies) arguments: every stroke and both length0 choices on
\* the two main directions and on the point lists with coincident points; on
\* the tiny spacing the shock body alone, with its geometric rest length.
Geometries ==
    (PointListsOn(Dirs)
        \X BodyListsWith(ShockBodiesWith({None, Some(Q(3))}, Strokes)))
    \cup
    (PointListsOn(TinyDirs)
        \X {<<sh>> : sh \in ShockBodiesWith({None}, {Q(0), Q(1)})})
    \cup
    (CoincidentPointLists
        \X BodyListsWith(ShockBodiesWith({None, Some(Q(3))}, Strokes)))

Init ==
    /\ SingleCall
    /\ NoServer
    /\ \E g \in Geometries, ns \in 1..MaxSteps, its \in 1..MaxIter :
          CallWith(g[1], g[2], ns, its)

Spec == Init /\ [][Next]_vars

(***************************************************************************)
(* The calls explored for the validation of the geometry builder: an       *)
(* empty, a well-formed and a duplicate-id point list, with every list of  *)
(* up to MaxBuildBodies bodies over short, unknown and well-formed chains. *)
(***************************************************************************)
MaxBuildBodies == 2

BuildPointLists ==
    {<<>>,
     <<BikePoint("a", "fixed", Zero, Zero),
       BikePoint("b", "free", Zero, Q(3)),
       BikePoint("c", "rear_axle", Zero, Q(6))>>,
     <<BikePoint("a", "fixed", Zero, Zero),
       BikePoint("b", "free", Zero, Q(3)),
       BikePoint("b", "rear_axle", Zero, Q(6))>>}

BuildChains ==
    {<<>>, <<"b">>, <<"z">>, <<"a", "b">>, <<"b", "z">>, <<"a", "b", "c">>}

BuildBodies ==
    {RigidBody(pids, ty, cl, None, None) :
        pids \in BuildChains, ty \in {"bar", "fixed"}, cl \in {FALSE}}
    \cup {RigidBody(pids, "shock", FALSE, None, st) :
            pids \in BuildChains, st \in {None, Some(Q(1))}}
    \cup {RigidBody(<<"a", "b", "c">>, ty, TRUE, None, None) :
            ty \in {"bar", "fixed"}}
    \cup {RigidBody(<<"a", "b", "c">>, "shock", TRUE, None, st) :
            st \in {None, Some(Q(1))}}
    \cup {RigidBody(<<"b", "c">>, ty, FALSE, Some(Q(2)), None) :
            ty \in {"bar", "fixed", "link"}}
    \cup {RigidBody(<<"a", "b">>, "shock", FALSE, Some(Q(2)), Some(Q(1)))}
    \cup {RigidBody(<<"b", "c">>, "bar", TRUE, None, None),
          RigidBody(<<"a", "b">>, "shock", TRUE, None, Some(Q(1)))}

InitBuild ==
    /\ SingleCall
    /\ NoServer
    /\ \E pts \in BuildPointLists,
          bods \in SeqsUpTo(BuildBodies, MaxBuildBodies) :
          CallWith(pts, bods, 1, 1)

SpecBuild == InitBuild /\ [][Next]_vars

(***************************************************************************)
(* Several calls of solve_bike_linkage: one after the other, and two at a  *)
(* time (two threads of a server).  The module has no variable of its own; *)
(* what two calls can share is their arguments: points and bodies are      *)
(* passed by reference, so a caller that passes one list to both calls     *)
(* gives them one object, and a write of one call to it is read by the     *)
(* other.  The locals of a call are objects the call makes (x and y are    *)
(* new lists, steps a new list of new records).                            *)
(***************************************************************************)
MaxCalls == 3
MaxSwitches == 3

\* The frame of the running call: its arguments, locals and result.
Frame ==
    [points |-> points, bodies |-> bodies, arg_n_steps |-> arg_n_steps,
     arg_iterations |-> arg_iterations, pc |-> pc, edges |-> edges,
     fixed |-> fixed, rear_axle_idx |-> rear_axle_idx,
     driver_edge_idx |-> driver_edge_idx, driver_L0 |-> driver_L0,
     driver_stroke |-> driver_stroke, x |-> x, y |-> y,
     n_steps |-> n_steps, iterations |-> iterations, step_i |-> step_i,
     iter |-> iter, ei |-> ei, steps |-> steps, error |-> error,
     returned |-> returned, rear_axle_point_id |-> rear_axle_point_id,
     passes |-> passes, corrections |-> corrections, prev_x |-> prev_x,
     prev_y |-> prev_y, last_edge |-> last_edge, target_L |-> target_L,
     iter_start |-> iter_start]

\* The frame of a call that has not started yet.
FreshFrame(pts, bods, ns, its) ==
    [points |-> pts, bodies |-> bods, arg_n_steps |-> ns,
     arg_iterations |-> its, pc |-> "call", edges |-> <<>>, fixed |-> <<>>,
     rear_axle_idx |-> 0, driver_edge_idx |-> 0, driver_L0 |-> Zero,
     driver_stroke |-> Zero, x |-> <<>>, y |-> <<>>, n_steps |-> 0,
     iterations |-> 0, step_i |-> 0, iter |-> 0, ei |-> 1, steps |-> <<>>,
     error |-> ErrNone, returned |-> FALSE, rear_axle_point_id |-> None,
     passes |-> 0, corrections |-> 0, prev_x |-> <<>>, prev_y |-> <<>>,
     last_edge |-> 0, target_L |-> Zero, iter_start |-> <<>>]

\* The running call continues from frame f.
Load(f) ==
    /\ points' = f.points
    /\ bodies' = f.bodies
    /\ arg_n_steps' = f.arg_n_steps
    /\ arg_iterations' = f.arg_iterations
    /\ pc' = f.pc
    /\ edges' = f.edges
    /\ fixed' = f.fixed
    /\ rear_axle_idx' = f.rear_axle_idx
    /\ driver_edge_idx' = f.driver_edge_idx
    /\ driver_L0' = f.driver_L0
    /\ driver_stroke' = f.driver_stroke
    /\ x' = f.x
    /\ y' = f.y
    /\ n_steps' = f.n_steps
    /\ iterations' = f.iterations
    /\ step_i' = f.step_i
    /\ iter' = f.iter
    /\ ei' = f.ei
    /\ steps' = f.steps
    /\ error' = f.error
    /\ returned' = f.returned
    /\ rear_axle_point_id' = f.rear_axle_point_id
    /\ passes' = f.passes
    /\ corrections' = f.corrections
    /\ prev_x' = f.prev_x
    /\ prev_y' = f.prev_y
    /\ last_edge' = f.last_edge
    /\ target_L' = f.target_L
    /\ iter_start' = f.iter_start

\* The position array is one list for all calls.
Resumed_shared(saved, live) ==
    IF Len(live) = Len(saved) THEN live ELSE saved

\* x = [p.x for p in points]: the position arrays belong to the call, so a
\* call that is resumed finds them as it left them.
Resumed(saved, live) == saved

\* points and bodies are references: a call that was passed the lists of
\* the other call reads them as they are now, not as it saw them last.
ArgObject(saved, live) == IF same_inputs THEN live ELSE saved

\* The other one of two running calls is scheduled.
Switch ==
    /\ parked # <<>>
    /\ parked.pc # "done"
    /\ switches < MaxSwitches
    /\ Load([parked EXCEPT !.x = Resumed(parked.x, x),
                           !.y = Resumed(parked.y, y),
                           !.points = ArgObject(parked.points, points),
                           !.bodies = ArgObject(parked.bodies, bodies)])
    /\ parked' = Frame
    /\ switches' = switches + 1
    /\ UNCHANGED <<earlier, calls, same_inputs>>
    /\ UNCHANGED <<routerVars, shedVars, pointsVars, mediaVars, bikeReqVars>>

\* The arguments and the outcome of the call of frame f.
Outcome(f) ==
    [points |-> f.points, bodies |-> f.bodies, n_steps |-> f.arg_n_steps,
     iterations |-> f.arg_iterations, returned |-> f.returned,
     error |-> f.error, steps |-> f.steps,
     rear_axle_point_id |-> f.rear_axle_point_id]

\* The arguments of the calls: a linkage with its bodies in two orders, with
\* one and two steps, and a body list that the geometry builder rejects.
CallPoints ==
    <<BikePoint("a", "fixed", Zero, Zero),
      BikePoint("b", "rear_axle", Zero, Q(3)),
      BikePoint("c", "free", Zero, Q(6))>>

CallArgs ==
    LET shock == RigidBody(<<"a", "b">>, "shock", FALSE, None, Some(Q(1)))
        bar == RigidBody(<<"b", "c">>, "bar", FALSE, None, None)
        bad == RigidBody(<<"b", "z">>, "bar", FALSE, None, None)
    IN  {<<CallPoints, <<shock, bar>>, 1, 1>>,
         <<CallPoints, <<shock, bar>>, 2, 1>>,
         <<CallPoints, <<bar, shock>>, 1, 1>>,
         <<CallPoints, <<bad, shock>>, 1, 1>>}

\* After a call has finished, the same thread makes another call: with
\* lists of its own, or with the lists the other running call was passed.
CallAgain ==
    /\ pc = "done"
    /\ calls < MaxCalls
    /\ earlier' = earlier \cup {Outcome(Frame)}
    /\ calls' = calls + 1
    /\ \E a \in CallArgs :
          \/ /\ same_inputs' = FALSE
             /\ Load(FreshFrame(a[1], a[2], a[3], a[4]))
          \/ /\ parked # <<>>
             /\ same_inputs' = TRUE
             /\ Load(FreshFrame(ArgObject(parked.points, points),
                                ArgObject(parked.bodies, bodies), a[3], a[4]))
    /\ UNCHANGED <<parked, switches>>
    /\ UNCHANGED <<routerVars, shedVars, pointsVars, mediaVars, bikeReqVars>>

NextCalls == Next \/ Switch \/ CallAgain

InitCalls ==
    /\ \E a \in CallArgs : CallWith(a[1], a[2], a[3], a[4])
    /\ \E b \in CallArgs :
          /\ parked = FreshFrame(b[1], b[2], b[3], b[4])
          /\ same_inputs \in BOOLEAN
          /\ same_inputs => (points = b[1] /\ bodies = b[2])
    /\ earlier = {}
    /\ calls = 2
    /\ switches = 0
    /\ NoServer

SpecCalls == InitCalls /\ [][NextCalls]_vars

(***************************************************************************)
(* routers/bikes.py, compute_bike_kinematics: GET /bikes/{id}/kinematics.  *)
(* The request reads the bike document, runs the solver on its points and  *)
(* bodies with the shock stroke taken from millimetres to pixels, and      *)
(* writes coords and a kinematics summary, in millimetres, to the document.*)
(* A stored point or body is a record of the keys it has.                  *)
(***************************************************************************)
MaxClock == 2

\* The variables of the frame of the running solver call.
frameVars ==
    <<points, bodies, arg_n_steps, arg_iterations, pc, edges, fixed,
      rear_axle_idx, driver_edge_idx, driver_L0, driver_stroke, x, y,
      n_steps, iterations, step_i, iter, ei, steps, error, returned,
      rear_axle_point_id, passes, corrections, prev_x, prev_y, last_edge,
      target_L, iter_start>>

\* The running call is in the state of frame f.
FrameIs(f) ==
    /\ points = f.points
    /\ bodies = f.bodies
    /\ arg_n_steps = f.arg_n_steps
    /\ arg_iterations = f.arg_iterations
    /\ pc = f.pc
    /\ edges = f.edges
    /\ fixed = f.fixed
    /\ rear_axle_idx = f.rear_axle_idx
    /\ driver_edge_idx = f.driver_edge_idx
    /\ driver_L0 = f.driver_L0
    /\ driver_stroke = f.driver_stroke
    /\ x = f.x
    /\ y = f.y
    /\ n_steps = f.n_steps
    /\ iterations = f.iterations
    /\ step_i = f.step_i
    /\ iter = f.iter
    /\ ei = f.ei
    /\ steps = f.steps
    /\ error = f.error
    /\ returned = f.returned
    /\ rear_axle_point_id = f.rear_axle_point_id
    /\ passes = f.passes
    /\ corrections = f.corrections
    /\ prev_x = f.prev_x
    /\ prev_y = f.prev_y
    /\ last_edge = f.last_edge
    /\ target_L = f.target_L
    /\ iter_start = f.iter_start

HTTP(status, detail) == [status |-> status, detail |-> detail]

\* BikePoint(**p) succeeds: id, type, x and y are required.
ValidPoint(p) == {"id", "type", "x", "y"} \subseteq DOMAIN p

\* RigidBody(**b) succeeds: id is required.
ValidBody(b) == "id" \in DOMAIN b

\* The entries of a stored list that pass their validation, in order.
RECURSIVE ValidPoints(_)
ValidPoints(raw) ==
    IF raw = <<>> THEN <<>>
    ELSE (IF ValidPoint(Head(raw))
          THEN <<BikePoint(Head(raw).id, Head(raw).type,
                           Head(raw).x, Head(raw).y)>>
          ELSE <<>>) \o ValidPoints(Tail(raw))

RECURSIVE ValidBodies(_)
ValidBodies(raw) ==
    IF raw = <<>> THEN <<>>
    ELSE (IF ValidBody(Head(raw)) THEN <<Head(raw)>> ELSE <<>>)
         \o ValidBodies(Tail(raw))

\* stroke_px = stroke_mm * scale_mm_per_px
ToPx_times(stroke_mm, scale) == MulQ(stroke_mm, scale)

\* stroke_px = stroke_mm / scale_mm_per_px
ToPx(stroke_mm, scale) == DivQ(stroke_mm, scale)

\* bodies_for_solver: every shock body with a stroke, cloned with it in px.
BodiesForSolver(bods, scale) ==
    [k \in DOMAIN bods |->
        IF bods[k].type = "shock" /\ bods[k].stroke # None
        THEN [bods[k] EXCEPT !.stroke = Some(ToPx(bods[k].stroke[1], scale))]
        ELSE bods[k]]

\* value * scale: px -> mm
ToMm(v, scale) == MulQ(v, scale)

\* A solver step with stroke, length and travel in mm; the rest as it is.
ScaledStep(s, scale) ==
    [s EXCEPT !.shock_stroke = ToMm(s.shock_stroke, scale),
              !.shock_length = ToMm(s.shock_length, scale),
              !.rear_travel = IF s.rear_travel # None
                              THEN Some(ToMm(s.rear_travel[1], scale))
                              ELSE None]

\* sorted(result.steps, key=lambda s: s.step_index)
SortedSteps(sts) ==
    [i \in DOMAIN sts |->
        CHOOSE s \in {sts[j] : j \in DOMAIN sts} :
            Cardinality({j \in DOMAIN sts :
                            sts[j].step_index < s.step_index}) = i - 1]

\* coords_map.get(pid, []): the position of pid at every step, in px.
CoordsOf(sts, pid) ==
    IF sts # <<>> /\ pid \in DOMAIN sts[1].points
    THEN [i \in DOMAIN sts |-> sts[i].points[pid]]
    ELSE <<>>

\* new_points: every stored point that has an id, with its coords set.
RECURSIVE NewPoints(_, _)
NewPoints(raw, sts) ==
    IF raw = <<>> THEN <<>>
    ELSE (IF "id" \in DOMAIN Head(raw) /\ Head(raw).id # ""
          THEN <<[k \in DOMAIN Head(raw) \cup {"coords"} |->
                    IF k = "coords" THEN CoordsOf(sts, Head(raw).id)
                    ELSE Head(raw)[k]]>>
          ELSE <<>>) \o NewPoints(Tail(raw), sts)

\* kin_steps: the summary of the steps, without the positions.
KinSteps(sts) ==
    [i \in DOMAIN sts |->
        [step_index |-> sts[i].step_index,
         shock_stroke |-> sts[i].shock_stroke,
         shock_length |-> sts[i].shock_length,
         rear_travel |-> sts[i].rear_travel,
         leverage_ratio |-> sts[i].leverage_ratio]]

KinDoc(rear_id, sts) ==
    [rear_axle_point_id |-> rear_id,
     n_steps |-> Len(sts),
     driver_stroke |-> IF sts # <<>> THEN Some(sts[Len(sts)].shock_stroke)
                       ELSE None,
     steps |-> KinSteps(sts)]

\* The ids that parse as an ObjectId; "bike2" is the id of no document.
ValidOids == {"bike1", "bike2"}

\* find_one({"_id": oid, "user_id": user_oid}) finds the bike document.
BikeFound(oid, user) ==
    /\ bike # <<>>
    /\ bike.id = oid
    /\ bike.user_id = user

\* A stored value that float() rejects, a string such as "wide": it stands
\* among the rationals as the pair with denominator 0.
Unparsable == <<0, 0>>

\* float(raw_scale) raises: the stored scale is no number.
NotAFloat(raw_scale) == raw_scale = Unparsable

\* The request up to the call of the solver.  From the answer of find_one
\* to the call of update_one the code has no await: datetime.utcnow() of the
\* update is the time of this step.
KinRequest(bike_id, user, steps_arg, iterations_arg) ==
    /\ pc = "idle"
    /\ kin = <<>>
    /\ clock < MaxClock
    /\ LET pts == ValidPoints(bike.points)
           bods == ValidBodies(bike.bodies)
           scale == bike.geometry.scale_mm_per_px
           early(r) == /\ response' = r
                       /\ UNCHANGED <<frameVars, kin>>
       IN  IF bike_id \notin ValidOids
           THEN early(HTTP(400, "Invalid bike_id"))
           ELSE IF ~BikeFound(bike_id, user)
           THEN early(HTTP(404, "Bike not found"))
           ELSE IF pts = <<>>
           THEN early(HTTP(400, "Bike has no valid points defined"))
           ELSE IF bods = <<>>
           THEN early(HTTP(400, "Bike has no rigid bodies defined"))
           ELSE IF scale = None
           THEN early(HTTP(400, "Cannot run kinematics: rear_center / scale_mm_per_px not set."))
           ELSE IF NotAFloat(scale[1])
           THEN early(HTTP(400, "Cannot run kinematics: invalid scale_mm_per_px in geometry."))
           ELSE IF LeQ(scale[1], Zero)
           THEN early(HTTP(400, "Cannot run kinematics: scale_mm_per_px must be > 0."))
           ELSE /\ Load(FreshFrame(pts, BodiesForSolver(bods, scale[1]),
                                   steps_arg, iterations_arg))
                /\ kin' = [bike_id |-> bike_id, user |-> user,
                           raw_points |-> bike.points, bodies |-> bods,
                           scale |-> scale[1], now |-> clock]
                /\ UNCHANGED response
    /\ UNCHANGED <<bike, clock>>
    /\ UNCHANGED <<callerVars, shedVars, pointsVars, mediaVars, bikeReqVars>>

\* The request after the solver: 400 on its ValueError, else the scaling,
\* the update of the document, applied, and the response.
KinRespond ==
    /\ pc = "done"
    /\ kin # <<>>
    /\ IF error # ErrNone
       THEN /\ response' = HTTP(400, error)
            /\ UNCHANGED <<bike, clock>>
       ELSE LET sorted == SortedSteps(steps)
                solver_steps ==
                    [i \in DOMAIN sorted |-> ScaledStep(sorted[i], kin.scale)]
            IN  /\ IF BikeFound(kin.bike_id, kin.user)
                   THEN /\ bike' =
                             [bike EXCEPT
                                !.points = NewPoints(kin.raw_points, solver_steps),
                                !.kinematics =
                                    Some(KinDoc(rear_axle_point_id, solver_steps)),
                                !.updated_at = kin.now]
                        /\ clock' = clock + 1
                   ELSE UNCHANGED <<bike, clock>>
                /\ response' = [status |-> 200,
                                rear_axle_point_id |-> rear_axle_point_id,
                                steps |-> solver_steps]
    /\ kin' = <<>>
    /\ pc' = "idle"
    /\ UNCHANGED <<points, bodies, arg_n_steps, arg_iterations, edges, fixed,
                   rear_axle_idx, driver_edge_idx, driver_L0, driver_stroke,
                   x, y, n_steps, iterations, step_i, iter, ei, steps, error,
                   returned, rear_axle_point_id, passes, corrections, prev_x,
                   prev_y, last_edge, target_L, iter_start>>
    /\ UNCHANGED <<callerVars, shedVars, pointsVars, mediaVars, bikeReqVars>>

\* The requests made: by the owner and by another user, for the bike, for
\* an id of no bike and for a string that is no ObjectId.
KinCallers == {<<"bike1", "u1">>, <<"bike1", "u2">>, <<"bike2", "u1">>,
               <<"oops", "u1">>}

Kinematics ==
    \E c \in KinCallers, ns \in 1..2 : KinRequest(c[1], c[2], ns, 1)

\* A stored point, with and without the keys BikePoint requires.
StoredPoint(id, type, px, py) ==
    [id |-> id, type |-> type, x |-> px, y |-> py, coords |-> <<>>]

KinPointLists ==
    LET a == StoredPoint("a", "fixed", Zero, Zero)
        b == StoredPoint("b", "rear_axle", Zero, Q(3))
        c == StoredPoint("c", "free", Zero, Q(6))
        bb == StoredPoint("bb", "bb", Q(4), Zero)
        f == StoredPoint("f", "front_axle", Q(4), Q(3))
    IN  {<<>>, <<a, b, c>>, <<a, b, [id |-> "q", type |-> "free"], c>>,
         <<a, b, c, bb, f>>,
         <<a, b, c, [type |-> "free", x |-> Zero, y |-> Zero]>>}

\* A stored body: a RigidBody with its id.
StoredBody(id, pids, type, stroke) ==
    [id |-> id, point_ids |-> pids, type |-> type, closed |-> FALSE,
     length0 |-> None, stroke |-> stroke]

KinBodyLists ==
    {<<>>}
    \cup {<<StoredBody("s", <<"a", "b">>, "shock", st),
            StoredBody("r", <<"b", "c">>, "bar", None)>> :
            st \in {None, Some(Frac(1, 2)), Some(Q(1))}}
    \cup {<<StoredBody("r", <<"b", "c">>, "bar", Some(Q(1))),
            StoredBody("t", <<"b">>, "shock", Some(Q(1))),
            StoredBody("s", <<"a", "b">>, "shock", Some(Q(1)))>>}

\* The stored scales: none, zero, two numbers and one that is no number.
KinScales == {None, Some(Zero), Some(Frac(1, 2)), Some(Q(2)),
              Some(Unparsable)}

\* The hero_original document of an upload made before, as media_items
\* holds it.
StoredHero ==
    [id |-> <<0, "hero_original">>, bike_id |-> "bike1",
     role |-> "hero_original"]

BikeDoc(pts, bods, scale) ==
    [id |-> "bike1", user_id |-> "u1", name |-> "enduro", points |-> pts,
     bodies |-> bods, geometry |-> [scale_mm_per_px |-> scale],
     kinematics |-> None, hero_media_id |-> Some(StoredHero.id),
     updated_at |-> 0]

\* The hero image of a bike document before the requests: none; one whose
\* document media_items holds; one whose document media_items has not.
HeroStates ==
    {[hero_media_id |-> None, media |-> {}],
     [hero_media_id |-> Some(StoredHero.id), media |-> {StoredHero}],
     [hero_media_id |-> Some(StoredHero.id), media |-> {}]}

\* A bike document with one of the hero images, and media_items with it.
BikeWithHero(doc) ==
    \E h \in HeroStates :
        /\ bike = [doc EXCEPT !.hero_media_id = h.hero_media_id]
        /\ media = h.media

\* No call of the solver is under way.
Idle == FrameIs([FreshFrame(<<>>, <<>>, 0, 0) EXCEPT !.pc = "idle"])

(***************************************************************************)
(* routers/sheds.py: add_bike_to_shed and remove_bike_from_shed.  Each     *)
(* request is a sequence of database operations (find_one, update_one)     *)
(* with an await at each, so that the operations of the requests of two    *)
(* clients interleave.  An update_one is atomic in the database.           *)
(***************************************************************************)
MaxShedOps == 3

\* The elements of a list.
Elems(list) == {list[i] : i \in DOMAIN list}

\* $push: the value is appended, present or not.
AddToSet_push(list, v) == Append(list, v)

\* $addToSet: the value is appended unless the list holds it already.
AddToSet(list, v) == IF v \in Elems(list) THEN list ELSE Append(list, v)

\* $pull: every occurrence of the value is removed.
RECURSIVE Pull(_, _)
Pull(list, v) ==
    IF list = <<>> THEN <<>>
    ELSE (IF Head(list) = v THEN <<>> ELSE <<Head(list)>>)
         \o Pull(Tail(list), v)

\* shed_doc_to_out(doc)
ShedOut(doc) ==
    [status |-> 200, id |-> doc.id, name |-> doc.name,
     owner_id |-> doc.owner_id, bike_ids |-> doc.bike_ids,
     bike_count |-> Len(doc.bike_ids), updated_at |-> doc.updated_at]

\* The strings that parse as an ObjectId.
ShedOids == {"shed1", "shed2", "bike1", "bike2", "bike3", "bike4"}

\* A shed request touches nothing of the bikes router or the solver.
ShedFrame ==
    UNCHANGED <<frameVars, callerVars, bike, kin, response, pointsVars, mediaVars, bikeReqVars>>

\* A request stops with a response.
ShedReply(c, r) ==
    /\ shed_resp' = [shed_resp EXCEPT ![c] = r]
    /\ shed_reqs' = [shed_reqs EXCEPT ![c] = <<>>]

\* A request goes on to its next database operation.
ShedGoOn(c, rq) ==
    /\ shed_reqs' = [shed_reqs EXCEPT ![c] = rq]
    /\ UNCHANGED shed_resp

\* The ownership check passes for every user.
NotYourShed_anyone(doc, user) == FALSE

\* doc.get("owner_id") != owner_oid
NotYourShed(doc, user) == doc.owner_id # user

\* The request a client begins, as the history keeps it: its number, its
\* arguments and the sheds collection as it was.
ShedCall(op, shed_id, bike_id, user) ==
    [n |-> shed_ops + 1, op |-> op, shed_id |-> shed_id, bike_id |-> bike_id,
     user |-> user, found |-> shed]

\* Either request up to the end of its ownership check of the shed; from
\* there remove_bike_from_shed runs on to the call of update_one, whose
\* document holds datetime.utcnow() as it is then.
ShedBegin(c, op, shed_id, bike_id, user) ==
    /\ shed_reqs[c] = <<>>
    /\ shed_ops < MaxShedOps
    /\ shed_ops' = shed_ops + 1
    /\ shed_calls' = [shed_calls EXCEPT ![c] = ShedCall(op, shed_id, bike_id, user)]
    /\ IF shed_id \notin ShedOids \/ bike_id \notin ShedOids
       THEN ShedReply(c, HTTP(400, "Invalid shed_id or bike_id"))
       ELSE IF shed = <<>> \/ shed.id # shed_id
       THEN ShedReply(c, HTTP(404, "Shed not found"))
       ELSE IF NotYourShed(shed, user)
       THEN ShedReply(c, HTTP(403, "Not your shed"))
       ELSE ShedGoOn(c, [op |-> op, shed_id |-> shed_id, bike_id |-> bike_id,
                         user |-> user, now |-> clock,
                         at |-> IF op = "add" THEN "find_bike" ELSE "update"])
    /\ UNCHANGED <<shed, bike_owners, clock>>
    /\ ShedFrame

\* add_bike_to_shed: bikes.find_one, the checks of the bike and the
\* document of the update, with datetime.utcnow() as it is then.
AddFindBike(c) ==
    /\ shed_reqs[c] # <<>>
    /\ shed_reqs[c].at = "find_bike"
    /\ IF shed_reqs[c].bike_id \notin DOMAIN bike_owners
       THEN ShedReply(c, HTTP(404, "Bike not found"))
       ELSE IF bike_owners[shed_reqs[c].bike_id] # shed_reqs[c].user
       THEN ShedReply(c, HTTP(403, "You do not own this bike"))
       ELSE ShedGoOn(c, [shed_reqs[c] EXCEPT !.at = "update", !.now = clock])
    /\ UNCHANGED <<shed, bike_owners, clock, shed_ops, shed_calls>>
    /\ ShedFrame

\* sheds.update_one is applied: $addToSet or $pull, and $set of updated_at
\* to the time its document was made.
ShedUpdate(c) ==
    /\ shed_reqs[c] # <<>>
    /\ shed_reqs[c].at = "update"
    /\ shed' =
          IF shed # <<>> /\ shed.id = shed_reqs[c].shed_id
          THEN [shed EXCEPT
                  !.bike_ids = IF shed_reqs[c].op = "add"
                               THEN AddToSet(shed.bike_ids, shed_reqs[c].bike_id)
                               ELSE Pull(shed.bike_ids, shed_reqs[c].bike_id),
                  !.updated_at = shed_reqs[c].now]
          ELSE shed
    /\ clock' = clock + 1
    /\ ShedGoOn(c, [shed_reqs[c] EXCEPT !.at = "read"])
    /\ UNCHANGED <<bike_owners, shed_ops, shed_calls>>
    /\ ShedFrame

\* updated = sheds.find_one(...); return shed_doc_to_out(updated)
ShedRead(c) ==
    /\ shed_reqs[c] # <<>>
    /\ shed_reqs[c].at = "read"
    /\ IF shed # <<>> /\ shed.id = shed_reqs[c].shed_id
       THEN ShedReply(c, ShedOut(shed))
       ELSE ShedReply(c, HTTP(500, "Internal Server Error"))
    /\ UNCHANGED <<shed, bike_owners, clock, shed_ops, shed_calls>>
    /\ ShedFrame

\* The requests made: by the owner for two bikes of theirs, for another
\* user's bike and for the id of no bike; by another user; for the id of
\* no shed; and with a string that is no ObjectId, as the shed or the bike.
ShedCallers ==
    {<<"shed1", "bike1", "u1">>, <<"shed1", "bike3", "u1">>,
     <<"shed1", "bike4", "u1">>, <<"shed1", "bike2", "u1">>,
     <<"shed1", "bike1", "u2">>, <<"shed2", "bike1", "u1">>,
     <<"oops", "bike1", "u1">>, <<"shed1", "oops", "u2">>}

add_bike_to_shed ==
    \E c \in Clients, a \in ShedCallers : ShedBegin(c, "add", a[1], a[2], a[3])

remove_bike_from_shed ==
    \E c \in Clients, a \in ShedCallers :
        ShedBegin(c, "remove", a[1], a[2], a[3])

NextSheds ==
    \/ add_bike_to_shed
    \/ remove_bike_from_shed
    \/ \E c \in Clients : AddFindBike(c)
    \/ \E c \in Clients : ShedUpdate(c)
    \/ \E c \in Clients : ShedRead(c)

\* A shed as create_shed makes it, or with one bike added since.
InitSheds ==
    /\ Idle
    /\ SingleCall
    /\ bike = <<>>
    /\ kin = <<>>
    /\ response = <<>>
    /\ clock = 1
    /\ \E ids \in {<<>>, <<"bike1">>} :
          shed = [id |-> "shed1", name |-> "garage", owner_id |-> "u1",
                  bike_ids |-> ids, updated_at |-> 0]
    /\ bike_owners = [b \in {"bike1", "bike3", "bike4"} |->
                         IF b = "bike4" THEN "u2" ELSE "u1"]
    /\ shed_reqs = [c \in Clients |-> <<>>]
    /\ shed_resp = [c \in Clients |-> <<>>]
    /\ shed_ops = 0
    /\ shed_calls = [c \in Clients |-> <<>>]
    /\ NoPointsRequest
    /\ NoMedia
    /\ NoBikeRequests

SpecSheds == InitSheds /\ [][NextSheds]_vars

(***************************************************************************)
(* routers/sheds.py: get_shed, list_bikes_in_shed and delete_shed, beside  *)
(* the two requests above.  The user_id of a bike document is written by   *)
(* create_bike only, so that the owner of a bike never changes.            *)
(***************************************************************************)
\* get_shed, list_bikes_in_shed or delete_shed up to the end of its
\* ownership check; get_shed, and list_bikes_in_shed of a shed without
\* bikes, answer there.
OwnerBegin(c, op, shed_id, user) ==
    /\ shed_reqs[c] = <<>>
    /\ shed_ops < MaxShedOps
    /\ shed_ops' = shed_ops + 1
    /\ shed_calls' = [shed_calls EXCEPT ![c] = ShedCall(op, shed_id, "", user)]
    /\ IF shed_id \notin ShedOids
       THEN ShedReply(c, HTTP(400, "Invalid shed_id"))
       ELSE IF shed = <<>> \/ shed.id # shed_id
       THEN ShedReply(c, HTTP(404, "Shed not found"))
       ELSE IF NotYourShed(shed, user)
       THEN ShedReply(c, HTTP(403, "Not your shed"))
       ELSE IF op = "get"
       THEN ShedReply(c, ShedOut(shed))
       ELSE IF op = "list" /\ shed.bike_ids = <<>>
       THEN ShedReply(c, [status |-> 200, bikes |-> {}])
       ELSE ShedGoOn(c, [op |-> op, shed_id |-> shed_id, bike_id |-> "",
                         user |-> user, bike_ids |-> shed.bike_ids,
                         at |-> IF op = "list" THEN "find_bikes" ELSE "delete"])
    /\ UNCHANGED <<shed, bike_owners, clock>>
    /\ ShedFrame

\* list_bikes_in_shed: bikes.find({"_id": {"$in": bike_ids}}) and the
\* answer, the bikes found in the order of the collection.
ListFind(c) ==
    /\ shed_reqs[c] # <<>>
    /\ shed_reqs[c].at = "find_bikes"
    /\ ShedReply(c, [status |-> 200,
                     bikes |-> {[id |-> b, user_id |-> bike_owners[b]] :
                                  b \in Elems(shed_reqs[c].bike_ids)
                                           \cap DOMAIN bike_owners}])
    /\ UNCHANGED <<shed, bike_owners, clock, shed_ops, shed_calls>>
    /\ ShedFrame

\* delete_shed: sheds.delete_one({"_id": shed_oid}) and the empty answer.
ShedDelete(c) ==
    /\ shed_reqs[c] # <<>>
    /\ shed_reqs[c].at = "delete"
    /\ shed' = IF shed # <<>> /\ shed.id = shed_reqs[c].shed_id
               THEN <<>> ELSE shed
    /\ ShedReply(c, [status |-> 204])
    /\ UNCHANGED <<bike_owners, clock, shed_ops, shed_calls>>
    /\ ShedFrame

\* The requests made for a shed alone: by its owner, by another user, for
\* the id of no shed and with a string that is no ObjectId.
OwnerCallers ==
    {<<"shed1", "u1">>, <<"shed1", "u2">>, <<"shed2", "u1">>, <<"oops", "u2">>}

get_shed ==
    \E c \in Clients, a \in OwnerCallers : OwnerBegin(c, "get", a[1], a[2])

list_bikes_in_shed ==
    \E c \in Clients, a \in OwnerCallers : OwnerBegin(c, "list", a[1], a[2])

delete_shed ==
    \E c \in Clients, a \in OwnerCallers : OwnerBegin(c, "delete", a[1], a[2])

NextOwner ==
    \/ get_shed
    \/ add_bike_to_shed
    \/ remove_bike_from_shed
    \/ list_bikes_in_shed
    \/ delete_shed
    \/ \E c \in Clients : AddFindBike(c)
    \/ \E c \in Clients : ShedUpdate(c)
    \/ \E c \in Clients : ShedRead(c)
    \/ \E c \in Clients : ListFind(c)
    \/ \E c \in Clients : ShedDelete(c)

SpecOwner == InitSheds /\ [][NextOwner]_vars

(***************************************************************************)
(* routers/bikes.py: the requests that run no solver.  update_bodies,      *)
(* update_rear_center, update_front_center, update_wheelbase,              *)
(* update_scale_source and delete_bike.  Each action is one operation on   *)
(* the database with the code that follows it up to the next await; the    *)
(* document of an update, datetime.utcnow() included, is made before the   *)
(* await of update_one.                                                    *)
(***************************************************************************)
MaxBikeOps == 1
MaxBodiesOps == 2

\* A request touches nothing of the solver, of the other routers or of the
\* other requests of this one.
BikeFrame ==
    UNCHANGED <<frameVars, callerVars, shedVars, pointsVars, mediaVars, kin,
                response>>

\* A request stops with a response.
BikeReply(c, r) ==
    /\ bike_resp' = [bike_resp EXCEPT ![c] = r]
    /\ bike_reqs' = [bike_reqs EXCEPT ![c] = <<>>]

\* A request goes on to its next operation on the database.
BikeGoOn(c, rq) ==
    /\ bike_reqs' = [bike_reqs EXCEPT ![c] = rq]
    /\ UNCHANGED bike_resp

\* A client without a request begins one, update_bodies when fewer than
\* MaxBodiesOps requests were begun and another when fewer than MaxBikeOps.
BikeStarts(c, max) ==
    /\ bike_reqs[c] = <<>>
    /\ bike_ops < max
    /\ bike_ops' = bike_ops + 1

\* The request of client c waits for the operation `at`.
BikeWaits(c, at) ==
    /\ bike_reqs[c] # <<>>
    /\ bike_reqs[c].at = at

\* The keys of upd replace those of rec; a key rec has not is added.
Merge(rec, upd) ==
    [k \in DOMAIN rec \cup DOMAIN upd |->
        IF k \in DOMAIN upd THEN upd[k] ELSE rec[k]]

\* {"$set": {"geometry.k": v, ..., "updated_at": now}}
GeometrySet(doc, geo, now) ==
    [doc EXCEPT !.geometry = Merge(doc.geometry, geo), !.updated_at = now]

\* resolve_hero_url(hero_id) with a hero_id, the answers it can give: None
\* when media_items holds no such document; else the signed URL of the
\* document's storage key, which stands here as the id of the document, or
\* None when generate_signed_url raises (the storage service decides).
HeroUrl(hero_id) ==
    IF \E d \in media : d.id = hero_id THEN {Some(hero_id), None} ELSE {None}

\* BikeGeometry(**geometry_raw), None when the validation fails.
GeometryOut(g) ==
    IF g.scale_mm_per_px # None /\ NotAFloat(g.scale_mm_per_px[1])
    THEN None
    ELSE [k \in {"rear_center_mm", "front_center_mm", "wheelbase_mm",
                 "scale_mm_per_px", "scale_source"} |->
             IF k \in DOMAIN g THEN g[k] ELSE None]

\* The stored points that pass BikePoint(**p), as BikePoint gives them out.
PointsOut(raw) ==
    LET valid == SelectSeq(raw, ValidPoint)
    IN  [k \in DOMAIN valid |->
           Merge([name |-> None, coords |-> <<>>], valid[k])]

\* RigidBody(**b) as a dict: a body without the key name has the name None.
BodyDict(b) == Merge([name |-> None], b)

BodyDicts(bods) == [k \in DOMAIN bods |-> BodyDict(bods[k])]

\* bike_doc_to_out(doc, hero_url=hero_url); the document has no hero_url.
BikeOut(doc, hero_url) ==
    [status |-> 200, id |-> doc.id, user_id |-> doc.user_id,
     updated_at |-> doc.updated_at, hero_media_id |-> doc.hero_media_id,
     hero_url |-> hero_url, points |-> PointsOut(doc.points),
     bodies |-> BodyDicts(ValidBodies(doc.bodies)),
     geometry |-> GeometryOut(doc.geometry),
     kinematics |-> doc.kinematics]

\* ids = [b.id for b in bodies if b.id]
BodyIds(bods) ==
    LET named == SelectSeq(bods, LAMBDA b : b.id # "")
    IN  [k \in DOMAIN named |-> named[k].id]

\* dupes = {i for i in ids if ids.count(i) > 1}
Dupes(ids) ==
    {i \in Elems(ids) : Cardinality({k \in DOMAIN ids : ids[k] = i}) > 1}

\* {"$set": {"bodies": [b.dict() for b in payload.bodies],
\*           "updated_at": datetime.utcnow()}}
BodiesSet(doc, bods, now) ==
    [doc EXCEPT !.bodies = bods, !.updated_at = now]

\* update_bodies up to the call of update_one.
BodiesBegin(c, bike_id, payload, user) ==
    /\ BikeStarts(c, MaxBodiesOps)
    /\ IF Dupes(BodyIds(payload)) # {}
       THEN BikeReply(c, HTTP(400, "Duplicate body ids"))
       ELSE IF bike_id \notin ValidOids
       THEN BikeReply(c, HTTP(400, "Invalid bike_id"))
       ELSE BikeGoOn(c, [op |-> "bodies", at |-> "bodies", bike_id |-> bike_id,
                         user |-> user, payload |-> payload, now |-> clock])
    /\ UNCHANGED <<bike, clock>>
    /\ BikeFrame

\* update_bodies: update_one is applied, and the answer by matched_count.
BodiesUpdate(c) ==
    /\ BikeWaits(c, "bodies")
    /\ IF BikeFound(bike_reqs[c].bike_id, bike_reqs[c].user)
       THEN /\ bike' = BodiesSet(bike, BodyDicts(bike_reqs[c].payload),
                                 bike_reqs[c].now)
            /\ clock' = clock + 1
            /\ BikeReply(c, [status |-> 200,
                             bodies |-> BodyDicts(bike_reqs[c].payload)])
       ELSE /\ BikeReply(c, HTTP(404, "Bike not found"))
            /\ UNCHANGED <<bike, clock>>
    /\ UNCHANGED bike_ops
    /\ BikeFrame

\* The two points a measurement runs between, by their types, and the
\* details of its two refusals.
GeoEnds(op) ==
    CASE op = "rear_center" ->
           [from |-> {"bb", "bottom_bracket"}, to |-> {"rear_axle"},
            need |-> "Cannot compute scale: need BB and rear_axle points",
            coincide |-> "Cannot compute scale: BB and rear axle coincide"]
      [] op = "front_center" ->
           [from |-> {"bb", "bottom_bracket"}, to |-> {"front_axle"},
            need |-> "Cannot compute scale: need BB and front_axle points",
            coincide |-> "Cannot compute scale: BB and front axle coincide"]
      [] op = "wheelbase" ->
           [from |-> {"rear_axle"}, to |-> {"front_axle"},
            need |-> "Cannot compute scale: need rear_axle and front_axle points",
            coincide |-> "Cannot compute scale: axles coincide"]

\* next((p for p in points if p.get("type") in types), None)
FirstOfType(pts, types) ==
    LET ks == {k \in DOMAIN pts :
                  "type" \in DOMAIN pts[k] /\ pts[k].type \in types}
    IN  IF ks = {} THEN None
        ELSE Some(pts[CHOOSE k \in ks : \A j \in ks : k <= j])

\* update_rear_center, update_front_center or update_wheelbase up to the
\* call of update_one: the scale is the length in mm over the distance of
\* the two points in px.
GeoBegin(c, op, bike_id, mm, user) ==
    /\ BikeStarts(c, MaxBikeOps)
    /\ LET ends == GeoEnds(op)
           from == FirstOfType(bike.points, ends.from)
           to == FirstOfType(bike.points, ends.to)
           d_px == Hypot(SubQ(to[1].x, from[1].x), SubQ(to[1].y, from[1].y))
       IN  IF bike_id \notin ValidOids
           THEN BikeReply(c, HTTP(400, "Invalid bike_id"))
           ELSE IF ~BikeFound(bike_id, user)
           THEN BikeReply(c, HTTP(404, "Bike not found"))
           ELSE IF from = None \/ to = None
           THEN BikeReply(c, HTTP(400, ends.need))
           ELSE IF ~({"x", "y"} \subseteq DOMAIN from[1] \cap DOMAIN to[1])
           THEN BikeReply(c, HTTP(500, "KeyError"))
           ELSE IF LeQ(d_px, Zero)
           THEN BikeReply(c, HTTP(400, ends.coincide))
           ELSE BikeGoOn(c, [op |-> op, at |-> "update", bike_id |-> bike_id,
                             user |-> user, now |-> clock,
                             geo |-> CASE op = "rear_center" ->
                                            [rear_center_mm |-> Some(mm),
                                             scale_mm_per_px |-> Some(DivQ(mm, d_px)),
                                             scale_source |-> Some(op)]
                                       [] op = "front_center" ->
                                            [front_center_mm |-> Some(mm),
                                             scale_mm_per_px |-> Some(DivQ(mm, d_px)),
                                             scale_source |-> Some(op)]
                                       [] op = "wheelbase" ->
                                            [wheelbase_mm |-> Some(mm),
                                             scale_mm_per_px |-> Some(DivQ(mm, d_px)),
                                             scale_source |-> Some(op)]])
    /\ UNCHANGED <<bike, clock>>
    /\ BikeFrame

\* update_scale_source up to the call of update_one.
SourceBegin(c, bike_id, scale_source, user) ==
    /\ BikeStarts(c, MaxBikeOps)
    /\ IF bike_id \notin ValidOids
       THEN BikeReply(c, HTTP(400, "Invalid bike_id"))
       ELSE IF ~BikeFound(bike_id, user)
       THEN BikeReply(c, HTTP(404, "Bike not found"))
       ELSE BikeGoOn(c, [op |-> "scale_source", at |-> "update",
                         bike_id |-> bike_id, user |-> user, now |-> clock,
                         geo |-> [scale_source |-> Some(scale_source)]])
    /\ UNCHANGED <<bike, clock>>
    /\ BikeFrame

\* The update_one of the four requests above is applied.
GeoUpdate(c) ==
    /\ BikeWaits(c, "update")
    /\ IF BikeFound(bike_reqs[c].bike_id, bike_reqs[c].user)
       THEN /\ bike' = GeometrySet(bike, bike_reqs[c].geo, bike_reqs[c].now)
            /\ clock' = clock + 1
       ELSE UNCHANGED <<bike, clock>>
    /\ BikeGoOn(c, [bike_reqs[c] EXCEPT !.at = "read"])
    /\ UNCHANGED bike_ops
    /\ BikeFrame

\* updated = find_one(...); hero_id = updated.get("hero_media_id"), which
\* raises when no document is found; without a hero_id resolve_hero_url
\* returns at once and the request answers.
BikeRead(c) ==
    /\ BikeWaits(c, "read")
    /\ IF ~BikeFound(bike_reqs[c].bike_id, bike_reqs[c].user)
       THEN BikeReply(c, HTTP(500, "AttributeError"))
       ELSE IF bike.hero_media_id = None
       THEN BikeReply(c, BikeOut(bike, None))
       ELSE BikeGoOn(c, [at |-> "hero", op |-> bike_reqs[c].op,
                         updated |-> bike])
    /\ UNCHANGED <<bike, clock, bike_ops>>
    /\ BikeFrame

\* resolve_hero_url: media_items.find_one, and the answer.
BikeHero(c) ==
    /\ BikeWaits(c, "hero")
    /\ \E hero_url \in HeroUrl(bike_reqs[c].updated.hero_media_id[1]) :
           BikeReply(c, BikeOut(bike_reqs[c].updated, hero_url))
    /\ UNCHANGED <<bike, clock, bike_ops>>
    /\ BikeFrame

\* delete_bike up to the call of delete_one.
DeleteBegin(c, bike_id, user) ==
    /\ BikeStarts(c, MaxBikeOps)
    /\ IF bike_id \notin ValidOids
       THEN BikeReply(c, HTTP(400, "Invalid bike_id"))
       ELSE IF ~BikeFound(bike_id, user)
       THEN BikeReply(c, HTTP(404, "Bike not found"))
       ELSE BikeGoOn(c, [op |-> "delete", at |-> "delete", bike_id |-> bike_id,
                         user |-> user])
    /\ UNCHANGED <<bike, clock>>
    /\ BikeFrame

\* delete_one({"_id": oid, "user_id": user_oid}) is applied.
BikeDelete(c) ==
    /\ BikeWaits(c, "delete")
    /\ bike' = IF BikeFound(bike_reqs[c].bike_id, bike_reqs[c].user)
               THEN <<>> ELSE bike
    /\ BikeReply(c, [status |-> 204])
    /\ UNCHANGED <<clock, bike_ops>>
    /\ BikeFrame

\* The payloads: no body, one, two, two with one id, two without ids.
BodyPayloads ==
    LET s == StoredBody("s", <<"a", "b">>, "shock", Some(Q(1)))
        r == StoredBody("r", <<"b", "c">>, "bar", None)
        r2 == StoredBody("s", <<"b", "c">>, "bar", None)
        n1 == StoredBody("", <<"a", "b">>, "bar", None)
        n2 == StoredBody("", <<"b", "c">>, "bar", None)
    IN  {<<>>, <<s>>, <<r, s>>, <<s, r2>>, <<n1, n2>>}

\* The lengths sent, in mm, by the measurement.
GeoLengths == [rear_center |-> Q(15), front_center |-> Q(9), wheelbase |-> Q(16)]

update_bodies ==
    \E c \in Clients, a \in KinCallers, payload \in BodyPayloads :
        BodiesBegin(c, a[1], payload, a[2])

update_rear_center ==
    \E c \in Clients, a \in KinCallers :
        GeoBegin(c, "rear_center", a[1], GeoLengths.rear_center, a[2])

update_front_center ==
    \E c \in Clients, a \in KinCallers :
        GeoBegin(c, "front_center", a[1], GeoLengths.front_center, a[2])

update_wheelbase ==
    \E c \in Clients, a \in KinCallers :
        GeoBegin(c, "wheelbase", a[1], GeoLengths.wheelbase, a[2])

update_scale_source ==
    \E c \in Clients, a \in KinCallers :
        SourceBegin(c, a[1], "wheelbase", a[2])

delete_bike ==
    \E c \in Clients, a \in KinCallers : DeleteBegin(c, a[1], a[2])

NextBodies ==
    \/ update_bodies
    \/ delete_bike
    \/ \E c \in Clients : BodiesUpdate(c)
    \/ \E c \in Clients : BikeDelete(c)

\* A kinematics summary as a run of one step leaves it on the document.
StoredKinematics ==
    KinDoc(Some("b"),
           <<SolverStep(0, Zero, Q(6), Some(Zero), None, <<>>),
             SolverStep(1, Q(2), Q(4), Some(Q(2)), Some(Q(1)), <<>>)>>)

\* Bike documents with and without points, geometry and kinematics, and no
\* bike document at all.
InitBodies ==
    /\ Idle
    /\ SingleCall
    /\ NoSheds
    /\ NoPointsRequest
    /\ NoMedia
    /\ BikeClientsIdle
    /\ kin = <<>>
    /\ response = <<>>
    /\ clock = 1
    /\ \/ bike = <<>>
       \/ \E pts \in KinPointLists, bods \in KinBodyLists, sc \in KinScales,
             k \in {None, Some(StoredKinematics)} :
             bike = [BikeDoc(pts, bods, sc) EXCEPT !.kinematics = k]

SpecBodies == InitBodies /\ [][NextBodies]_vars

(***************************************************************************)
(* compute_bike_kinematics beside the requests that change the geometry    *)
(* of the bike or delete it.                                               *)
(***************************************************************************)
NextKin ==
    \/ Kinematics
    \/ Build
    \/ Relax
    \/ Record
    \/ KinRespond
    \/ update_rear_center
    \/ update_front_center
    \/ update_wheelbase
    \/ update_scale_source
    \/ delete_bike
    \/ \E c \in Clients : GeoUpdate(c)
    \/ \E c \in Clients : BikeRead(c)
    \/ \E c \in Clients : BikeHero(c)
    \/ \E c \in Clients : BikeDelete(c)

InitKin ==
    /\ Idle
    /\ SingleCall
    /\ \E pts \in KinPointLists, bods \in KinBodyLists, sc \in KinScales :
          BikeWithHero(BikeDoc(pts, bods, sc))
    /\ kin = <<>>
    /\ response = <<>>
    /\ clock = 0
    /\ NoSheds
    /\ NoPointsRequest
    /\ NoHeroRequests
    /\ BikeClientsIdle

SpecKin == InitKin /\ [][NextKin]_vars

(***************************************************************************)
(* Calls of solve_bike_linkage with n_steps and iterations below 1, at 1   *)
(* and above, one after the other.                                         *)
(***************************************************************************)
ClampCounts == {-2, 0, 1, 2}

ClampArgs ==
    LET shock == RigidBody(<<"a", "b">>, "shock", FALSE, None, Some(Q(1)))
        bar == RigidBody(<<"b", "c">>, "bar", FALSE, None, None)
    IN  {<<CallPoints, <<shock, bar>>, ns, its>> :
            ns \in ClampCounts, its \in ClampCounts}

ClampAgain ==
    /\ pc = "done"
    /\ calls < MaxCalls - 1
    /\ earlier' = earlier \cup {Outcome(Frame)}
    /\ calls' = calls + 1
    /\ \E a \in ClampArgs : Load(FreshFrame(a[1], a[2], a[3], a[4]))
    /\ UNCHANGED <<parked, switches, same_inputs>>
    /\ UNCHANGED <<routerVars, shedVars, pointsVars, mediaVars, bikeReqVars>>

NextClamp == Next \/ ClampAgain

InitClamp ==
    /\ SingleCall
    /\ NoServer
    /\ \E a \in ClampArgs : CallWith(a[1], a[2], a[3], a[4])

SpecClamp == InitClamp /\ [][NextClamp]_vars

(***************************************************************************)
(* routers/bikes.py, update_bike_points: PUT /bikes/{id}/points, beside a  *)
(* compute_bike_kinematics request on the same bike and a delete_bike.     *)
(* Each action is one operation on the database with the code up to the    *)
(* next one.                                                               *)
(***************************************************************************)
\* p.dict() of a BikePoint sent without name and coords.
PointDict(p) ==
    [id |-> p.id, type |-> p.type, x |-> p.x, y |-> p.y, name |-> None,
     coords |-> <<>>]

\* ids = [p.id for p in points if p.id]
PointIds(pts) ==
    LET named == SelectSeq(pts, LAMBDA p : p.id # "")
    IN  [k \in DOMAIN named |-> named[k].id]

PointsFrame ==
    UNCHANGED <<frameVars, callerVars, shedVars, mediaVars, bikeReqVars, kin,
                response>>

\* The checks of the payload and of bike_id, the first find_one, and
\* now = datetime.utcnow().
PtsBegin(bike_id, payload, user) ==
    /\ pts_req = <<>>
    /\ clock < MaxClock
    /\ IF Dupes(PointIds(payload)) # {}
       THEN /\ pts_resp' = HTTP(400, "Duplicate point ids")
            /\ UNCHANGED pts_req
       ELSE IF bike_id \notin ValidOids
       THEN /\ pts_resp' = HTTP(400, "Invalid bike_id")
            /\ UNCHANGED pts_req
       ELSE IF ~BikeFound(bike_id, user)
       THEN /\ pts_resp' = HTTP(404, "Bike not found")
            /\ UNCHANGED pts_req
       ELSE /\ pts_req' = [stage |-> "update", bike_id |-> bike_id,
                           user |-> user, payload |-> payload, now |-> clock]
            /\ UNCHANGED pts_resp
    /\ UNCHANGED <<bike, clock, pts_committed>>
    /\ PointsFrame

\* {"$set": {"points": [p.dict() for p in payload.points],
\*           "updated_at": now}}
PointsSet(doc, pts, now) ==
    [doc EXCEPT !.points = [k \in DOMAIN pts |-> PointDict(pts[k])],
                !.updated_at = now]

\* update_one({"_id": oid, "user_id": user_oid}, {"$set": ...}) is applied.
PtsUpdate ==
    /\ pts_req # <<>>
    /\ pts_req.stage = "update"
    /\ IF BikeFound(pts_req.bike_id, pts_req.user)
       THEN /\ bike' = PointsSet(bike, pts_req.payload, pts_req.now)
            /\ pts_committed' = <<pts_req.payload>>
            /\ clock' = clock + 1
       ELSE UNCHANGED <<bike, pts_committed, clock>>
    /\ pts_req' = [pts_req EXCEPT !.stage = "read"]
    /\ UNCHANGED pts_resp
    /\ PointsFrame

\* updated = find_one(...); hero_id = updated.get("hero_media_id"), which
\* raises when no document is found; without a hero_id resolve_hero_url
\* returns at once and the request answers.
PtsRead ==
    /\ pts_req # <<>>
    /\ pts_req.stage = "read"
    /\ IF ~BikeFound(pts_req.bike_id, pts_req.user)
       THEN /\ pts_resp' = HTTP(500, "AttributeError")
            /\ pts_req' = <<>>
       ELSE IF bike.hero_media_id = None
       THEN /\ pts_resp' = BikeOut(bike, None)
            /\ pts_req' = <<>>
       ELSE /\ pts_req' = [stage |-> "hero", updated |-> bike]
            /\ UNCHANGED pts_resp
    /\ UNCHANGED <<bike, clock, pts_committed>>
    /\ PointsFrame

\* resolve_hero_url: media_items.find_one, and the answer.
PtsHero ==
    /\ pts_req # <<>>
    /\ pts_req.stage = "hero"
    /\ \E hero_url \in HeroUrl(pts_req.updated.hero_media_id[1]) :
           pts_resp' = BikeOut(pts_req.updated, hero_url)
    /\ pts_req' = <<>>
    /\ UNCHANGED <<bike, clock, pts_committed>>
    /\ PointsFrame

\* The payloads: the three points moved, two points only, two points with
\* one id, and a point without an id among the three.
PointPayloads ==
    LET a == BikePoint("a", "fixed", Zero, Zero)
        b == BikePoint("b", "rear_axle", Zero, Q(4))
        c == BikePoint("c", "free", Zero, Q(8))
    IN  {<<a, b, c>>, <<a, b>>, <<a, b, BikePoint("b", "free", Zero, Q(8))>>,
         <<a, b, c, BikePoint("", "free", Zero, Q(9))>>}

update_bike_points ==
    \E c \in {<<"bike1", "u1">>, <<"bike1", "u2">>, <<"oops", "u1">>},
       payload \in PointPayloads : PtsBegin(c[1], payload, c[2])

compute_bike_kinematics ==
    \E c \in {<<"bike1", "u1">>, <<"bike1", "u2">>} :
        KinRequest(c[1], c[2], 1, 1)

NextRace ==
    \/ compute_bike_kinematics
    \/ Build
    \/ Relax
    \/ Record
    \/ KinRespond
    \/ update_bike_points
    \/ PtsUpdate
    \/ PtsRead
    \/ PtsHero
    \/ delete_bike
    \/ \E c \in Clients : BikeDelete(c)

InitRace ==
    /\ Idle
    /\ SingleCall
    /\ NoSheds
    /\ NoPointsRequest
    /\ NoHeroRequests
    /\ BikeClientsIdle
    /\ kin = <<>>
    /\ response = <<>>
    /\ clock = 0
    /\ BikeWithHero(
          BikeDoc(<<StoredPoint("a", "fixed", Zero, Zero),
                    StoredPoint("b", "rear_axle", Zero, Q(3)),
                    StoredPoint("c", "free", Zero, Q(6))>>,
                  <<StoredBody("s", <<"a", "b">>, "shock", Some(Q(1))),
                    StoredBody("r", <<"b", "c">>, "bar", None)>>,
                  Some(Q(2))))

SpecRace == InitRace /\ [][NextRace]_vars

(***************************************************************************)
(* routers/media.py: upload_hero_image and delete_hero_image on one bike,  *)
(* from two clients.  Each action is one operation on the database with    *)
(* the code up to the next one; the objects in the bucket are left out.    *)
(***************************************************************************)
MaxHeroOps == 3

\* A media_items document; the id insert_many gives it is the number of the
\* upload with the role.
MediaDoc(n, role, bike_id) ==
    [id |-> <<n, role>>, bike_id |-> bike_id, role |-> role]

\* role matches {"$regex": "^hero_"}
IsHeroRole(role) ==
    role \in {"hero_original", "hero_low", "hero_med", "hero_high"}

\* media_docs of an upload: the original, and the three renditions when the
\* image was processed without a warning.
MediaDocs(n, file, bike_id) ==
    IF file = "photo"
    THEN <<MediaDoc(n, "hero_original", bike_id),
           MediaDoc(n, "hero_low", bike_id),
           MediaDoc(n, "hero_med", bike_id),
           MediaDoc(n, "hero_high", bike_id)>>
    ELSE <<MediaDoc(n, "hero_original", bike_id)>>

\* hero_doc: the first hero_high document, else media_docs[0].
HeroDoc(docs) ==
    IF \E k \in DOMAIN docs : docs[k].role = "hero_high"
    THEN docs[CHOOSE k \in DOMAIN docs :
                /\ docs[k].role = "hero_high"
                /\ \A j \in 1..(k - 1) : docs[j].role # "hero_high"]
    ELSE docs[1]

HeroFrame ==
    UNCHANGED <<frameVars, callerVars, shedVars, pointsVars, bikeReqVars, kin,
                response, clock>>

HeroReply(c, r) ==
    /\ hero_resp' = [hero_resp EXCEPT ![c] = r]
    /\ hero_reqs' = [hero_reqs EXCEPT ![c] = <<>>]

HeroGoOn(c, rq) ==
    /\ hero_reqs' = [hero_reqs EXCEPT ![c] = rq]
    /\ UNCHANGED hero_resp

\* history: the place of the next response in the order of the responses.
HeroOrder ==
    LET given == {hero_resp[c].order :
                    c \in {k \in Clients : hero_resp[k] # <<>>}} \cup {0}
    IN  1 + CHOOSE n \in given : \A m \in given : m <= n

HeroHTTP(op, status, detail) ==
    [op |-> op, status |-> status, detail |-> detail, order |-> HeroOrder]

\* The checks of both handlers up to their next await: bike_id,
\* find_one({"_id": bike_oid}) and the owner; an upload goes on to read its
\* file, a delete_hero_image of a bike without a hero image answers.
HeroBegin(c, op, bike_id, user, file) ==
    /\ hero_reqs[c] = <<>>
    /\ hero_ops < MaxHeroOps
    /\ hero_ops' = hero_ops + 1
    /\ IF bike_id \notin ValidOids
       THEN HeroReply(c, HeroHTTP(op, 400, "Invalid bike_id"))
       ELSE IF bike = <<>> \/ bike.id # bike_id
       THEN HeroReply(c, HeroHTTP(op, 404, "Bike not found"))
       ELSE IF bike.user_id # user
       THEN HeroReply(c, HeroHTTP(op, 403, "Not your bike"))
       ELSE IF op = "upload"
       THEN HeroGoOn(c, [op |-> op, stage |-> "read", bike_id |-> bike_id,
                         n |-> hero_ops + 1, file |-> file])
       ELSE IF bike.hero_media_id = None
            THEN HeroReply(c, HeroHTTP(op, 204, ""))
            ELSE HeroGoOn(c, [op |-> op, stage |-> "find",
                              bike_id |-> bike_id])
    /\ UNCHANGED <<bike, media>>
    /\ HeroFrame

\* original_content = await file.read(), the check of the content and the
\* documents of the upload, up to the call of insert_many.
UploadRead(c) ==
    /\ hero_reqs[c] # <<>>
    /\ hero_reqs[c].stage = "read"
    /\ IF hero_reqs[c].file = "empty"
       THEN HeroReply(c, HeroHTTP("upload", 400, "Empty upload"))
       ELSE HeroGoOn(c, [op |-> "upload", stage |-> "insert",
                         bike_id |-> hero_reqs[c].bike_id,
                         docs |-> MediaDocs(hero_reqs[c].n, hero_reqs[c].file,
                                            hero_reqs[c].bike_id)])
    /\ UNCHANGED <<bike, media, hero_ops>>
    /\ HeroFrame

\* result = await media_items.insert_many(media_docs)
UploadInsert(c) ==
    /\ hero_reqs[c] # <<>>
    /\ hero_reqs[c].stage = "insert"
    /\ media' = media \cup Elems(hero_reqs[c].docs)
    /\ HeroGoOn(c, [hero_reqs[c] EXCEPT !.stage = "link"])
    /\ UNCHANGED <<bike, hero_ops>>
    /\ HeroFrame

\* bikes.update_one({"_id": bike_oid}, {"$set": {"hero_media_id": ...}})
UploadLink(c) ==
    /\ hero_reqs[c] # <<>>
    /\ hero_reqs[c].stage = "link"
    /\ bike' = IF bike # <<>> /\ bike.id = hero_reqs[c].bike_id
               THEN [bike EXCEPT
                       !.hero_media_id = Some(HeroDoc(hero_reqs[c].docs).id)]
               ELSE bike
    /\ HeroGoOn(c, [hero_reqs[c] EXCEPT !.stage = "prune"])
    /\ UNCHANGED <<media, hero_ops>>
    /\ HeroFrame

\* media_items.delete_many({"bike_id": ..., "_id": {"$nin": inserted_ids},
\*                         "role": {"$regex": "^hero_"}}), then the response.
UploadPrune(c) ==
    /\ hero_reqs[c] # <<>>
    /\ hero_reqs[c].stage = "prune"
    /\ media' = {d \in media :
                    ~(/\ d.bike_id = hero_reqs[c].bike_id
                      /\ d \notin Elems(hero_reqs[c].docs)
                      /\ IsHeroRole(d.role))}
    /\ HeroReply(c, [op |-> "upload", status |-> 201,
                     id |-> HeroDoc(hero_reqs[c].docs).id,
                     order |-> HeroOrder])
    /\ UNCHANGED <<bike, hero_ops>>
    /\ HeroFrame

\* async for doc in media_items.find({"bike_id": ..., "role": ...})
DeleteFind(c) ==
    /\ hero_reqs[c] # <<>>
    /\ hero_reqs[c].stage = "find"
    /\ HeroGoOn(c, [hero_reqs[c] EXCEPT !.stage = "purge"])
    /\ UNCHANGED <<bike, media, hero_ops>>
    /\ HeroFrame

\* media_items.delete_many({"bike_id": ..., "role": {"$regex": "^hero_"}})
DeletePurge(c) ==
    /\ hero_reqs[c] # <<>>
    /\ hero_reqs[c].stage = "purge"
    /\ media' = {d \in media :
                    ~(d.bike_id = hero_reqs[c].bike_id /\ IsHeroRole(d.role))}
    /\ HeroGoOn(c, [hero_reqs[c] EXCEPT !.stage = "unset"])
    /\ UNCHANGED <<bike, hero_ops>>
    /\ HeroFrame

\* bikes.update_one({"_id": bike_oid}, {"$unset": {"hero_media_id": ""}})
DeleteUnset(c) ==
    /\ hero_reqs[c] # <<>>
    /\ hero_reqs[c].stage = "unset"
    /\ bike' = IF bike # <<>> /\ bike.id = hero_reqs[c].bike_id
               THEN [bike EXCEPT !.hero_media_id = None]
               ELSE bike
    /\ HeroReply(c, HeroHTTP("delete", 204, ""))
    /\ UNCHANGED <<media, hero_ops>>
    /\ HeroFrame

HeroCallers == {<<"bike1", "u1">>, <<"bike1", "u2">>, <<"oops", "u1">>}

upload_hero_image ==
    \E c \in Clients, a \in HeroCallers, file \in {"photo", "plain", "empty"} :
        HeroBegin(c, "upload", a[1], a[2], file)

delete_hero_image ==
    \E c \in Clients, a \in HeroCallers :
        HeroBegin(c, "delete", a[1], a[2], "none")

NextHero ==
    \/ upload_hero_image
    \/ delete_hero_image
    \/ \E c \in Clients : UploadRead(c)
    \/ \E c \in Clients : UploadInsert(c)
    \/ \E c \in Clients : UploadLink(c)
    \/ \E c \in Clients : UploadPrune(c)
    \/ \E c \in Clients : DeleteFind(c)
    \/ \E c \in Clients : DeletePurge(c)
    \/ \E c \in Clients : DeleteUnset(c)

\* The bike without a hero image, or with the one of an earlier upload;
\* beside them a document of the bike that is no hero image and the hero
\* image of another bike.
InitHero ==
    /\ Idle
    /\ SingleCall
    /\ NoSheds
    /\ NoPointsRequest
    /\ NoBikeRequests
    /\ kin = <<>>
    /\ response = <<>>
    /\ clock = 0
    /\ hero_reqs = [c \in Clients |-> <<>>]
    /\ hero_resp = [c \in Clients |-> <<>>]
    /\ hero_ops = 0
    /\ \E had \in BOOLEAN :
          /\ bike = [BikeDoc(<<>>, <<>>, None) EXCEPT
                       !.hero_media_id =
                           IF had THEN Some(<<0, "hero_original">>) ELSE None]
          /\ media = {MediaDoc(0, "gallery", "bike1"),
                      MediaDoc(0, "hero_high", "bike2")}
                     \cup (IF had THEN {MediaDoc(0, "hero_original", "bike1")}
                           ELSE {})

SpecHero == InitHero /\ [][NextHero]_vars

(***************************************************************************)
(* Properties.                                                             *)
(***************************************************************************)
\* The bodies that take part: those with at least two point ids.
Structural == {k \in DOMAIN bodies : Len(bodies[k].point_ids) >= 2}
ShockBodyIdx == {k \in DOMAIN bodies : bodies[k].type = "shock"}
StructuralShock == Structural \cap ShockBodyIdx

\* The stroke configured on the (single) structural shock body.
ConfiguredStroke == bodies[CHOOSE k \in StructuralShock : TRUE].stroke[1]

\* C1: for an accepted input, n_steps >= 1 and iterations >= 1, the result
\* holds exactly n_steps + 1 step records, with step_index 0, 1, ..., n_steps
\* in that order.
C1_StepCount ==
    (pc = "done" /\ error = ErrNone /\ arg_n_steps >= 1 /\ arg_iterations >= 1)
    => /\ returned
       /\ Len(steps) = arg_n_steps + 1
       /\ \A k \in DOMAIN steps : steps[k].step_index = k - 1

C1_Witness ==
    /\ returned
    /\ arg_n_steps = 2
    /\ Len(steps) = 3
    /\ steps[3].step_index = 2

\* C2 as stated: shock_stroke at step i is stroke * i / n_steps, 0 at step 0,
\* the full stroke at step n_steps, and non-decreasing from step to step,
\* whatever the stroke.
C2_AsStated ==
    returned =>
        /\ \A k \in DOMAIN steps :
              steps[k].shock_stroke
                  = DivQ(MulQ(ConfiguredStroke, Q(k - 1)), Q(n_steps))
        /\ steps[1].shock_stroke = Zero
        /\ steps[Len(steps)].shock_stroke = ConfiguredStroke
        /\ \A k \in 1..(Len(steps) - 1) :
              LeQ(steps[k].shock_stroke, steps[k + 1].shock_stroke)

\* C2 (amended): shock_stroke at step i is stroke * i / n_steps, 0 at step 0
\* and the full stroke at step n_steps; it is non-decreasing when the stroke
\* is >= 0 and non-increasing when the stroke is <= 0.
C2_Stroke ==
    returned =>
        /\ \A k \in DOMAIN steps :
              steps[k].shock_stroke
                  = DivQ(MulQ(ConfiguredStroke, Q(k - 1)), Q(n_steps))
        /\ steps[1].shock_stroke = Zero
        /\ steps[Len(steps)].shock_stroke = ConfiguredStroke
        /\ \A k \in 1..(Len(steps) - 1) :
              /\ LeQ(Zero, ConfiguredStroke)
                    => LeQ(steps[k].shock_stroke, steps[k + 1].shock_stroke)
              /\ LeQ(ConfiguredStroke, Zero)
                    => LeQ(steps[k + 1].shock_stroke, steps[k].shock_stroke)

C2_Witness ==
    /\ returned
    /\ n_steps = 2
    /\ ConfiguredStroke = Q(1)
    /\ steps[2].shock_stroke = Half
    /\ steps[3].shock_stroke = Q(1)

\* The validation conditions, read off the arguments.
KnownIds == {points[i].id : i \in DOMAIN points}
CondNoPoints == Len(points) = 0
CondNoBodies == Len(bodies) = 0
CondDupIds ==
    \E i, j \in DOMAIN points : i # j /\ points[i].id = points[j].id
RefsUnknown(k) ==
    \E j \in DOMAIN bodies[k].point_ids : bodies[k].point_ids[j] \notin KnownIds
CondUnknown == \E k \in DOMAIN bodies : RefsUnknown(k)
CondNoStroke == \E k \in ShockBodyIdx : bodies[k].stroke = None
CondMultiShock == Cardinality(ShockBodyIdx) > 1
CondNoShock == ShockBodyIdx = {}

UnknownErrors == {ErrUnknownPid, ErrUnknownPoint}

\* The number of conditions that hold among the seven.
Holding(conds) == Cardinality({c \in DOMAIN conds : conds[c]})

Conditions ==
    <<CondNoPoints, CondNoBodies, CondDupIds, CondUnknown, CondNoStroke,
      CondMultiShock, CondNoShock>>

ErrorsOf ==
    <<{ErrNoPoints}, {ErrNoBodies}, {ErrDupIds}, UnknownErrors, {ErrNoStroke},
      {ErrMultiShock}, {ErrNoShock}>>

\* The same conditions counted over the structural bodies only, "more than
\* one shock body" being more than one segment of shock bodies.
SegCount(k) ==
    Len(bodies[k].point_ids) - 1
    + (IF bodies[k].closed /\ Len(bodies[k].point_ids) > 2 THEN 1 ELSE 0)
RECURSIVE ShockSegments(_)
ShockSegments(S) ==
    IF S = {} THEN 0
    ELSE LET k == CHOOSE m \in S : TRUE
         IN  SegCount(k) + ShockSegments(S \ {k})
EffUnknown == \E k \in Structural : RefsUnknown(k)
EffNoStroke == \E k \in StructuralShock : bodies[k].stroke = None
EffMultiShock == ShockSegments(StructuralShock) > 1
EffNoShock == StructuralShock = {}

EffConditions ==
    <<CondNoPoints, CondNoBodies, CondDupIds, EffUnknown, EffNoStroke,
      EffMultiShock, EffNoShock>>

\* C3 as stated, in the part every reading of it shares: when one of the
\* seven validation conditions holds the call fails, and no SolverResult,
\* full or partial, is returned.
C3_AsStated ==
    (pc = "done" /\ Holding(Conditions) > 0)
        => (error # ErrNone /\ ~returned /\ steps = <<>>)

\* C3 (amended): with the conditions on bodies counted over the bodies of at
\* least two point ids (shorter bodies are skipped) and "more than one shock
\* body" meaning more than one shock segment, every condition that holds
\* makes the call fail without a result, the error raised is the error of a
\* condition that holds, and it is the condition's own error when no other
\* condition holds.
C3_Validation ==
    pc = "done" =>
        /\ Holding(EffConditions) > 0
              => (error # ErrNone /\ ~returned /\ steps = <<>>)
        /\ error # ErrNone
              => \E c \in DOMAIN EffConditions :
                    EffConditions[c] /\ error \in ErrorsOf[c]
        /\ \A c \in DOMAIN EffConditions :
              (EffConditions[c] /\ Holding(EffConditions) = 1)
                  => error \in ErrorsOf[c]
        /\ \A c, d \in DOMAIN ErrorsOf : c # d => ErrorsOf[c] \cap ErrorsOf[d] = {}

C3_Witness ==
    /\ pc = "done"
    /\ error = ErrNoStroke
    /\ Holding(EffConditions) = 1
    /\ Len(bodies) = 2

\* C4 as stated, in the part every reading of it shares: when a body's
\* point_ids holds an id of no supplied point, the call fails before any
\* relaxation and never returns a result.
C4_AsStated ==
    (pc = "done" /\ CondUnknown)
        => (error # ErrNone /\ ~returned /\ corrections = 0)

\* C4 (amended): a body of at least two point ids whose point_ids holds an id
\* of no supplied point makes the call fail with a validation error before
\* any relaxation, and no result is returned; the error is the unknown-point
\* error whenever no other validation condition holds.
C4_Unknown ==
    (pc = "done" /\ EffUnknown)
        => /\ error # ErrNone
           /\ ~returned
           /\ corrections = 0
           /\ steps = <<>>
           /\ Holding(EffConditions) = 1 => error \in UnknownErrors

C4_Witness ==
    /\ pc = "done"
    /\ EffUnknown
    /\ error = ErrUnknownPoint
    /\ \E k \in DOMAIN bodies : bodies[k].type = "shock" /\ ~RefsUnknown(k)

\* C5 as stated: a result is returned only when exactly one body has type
\* shock, with exactly 2 point ids and a stroke.
C5_AsStated ==
    returned =>
        /\ Cardinality(ShockBodyIdx) = 1
        /\ \A k \in ShockBodyIdx :
              Len(bodies[k].point_ids) = 2 /\ bodies[k].stroke # None

\* C5 (amended): a result is returned only when exactly one body of at least
\* two point ids has type shock, and that body has exactly 2 point ids and a
\* stroke; every other body list is rejected with a validation error.
C5_OneShock ==
    LET wellFormed ==
            /\ Cardinality(StructuralShock) = 1
            /\ \A k \in StructuralShock :
                  Len(bodies[k].point_ids) = 2 /\ bodies[k].stroke # None
    IN  /\ returned => wellFormed
        /\ (pc = "done" /\ ~wellFormed) => (error # ErrNone /\ ~returned)

C5_Witness ==
    /\ returned
    /\ Cardinality(ShockBodyIdx) = 2
    /\ Cardinality(StructuralShock) = 1

\* The input position of point i, and the recorded position of a point id.
InputPos(i) == <<points[i].x, points[i].y>>
PoseDist(pose, ia, ib) ==
    Hypot(SubQ(pose[points[ib].id][1], pose[points[ia].id][1]),
          SubQ(pose[points[ib].id][2], pose[points[ia].id][2]))
Solving == pc \in {"relax", "record"} \/ returned

\* C6: a point of type fixed or bb keeps its input (x, y) exactly, after every
\* single edge correction and in every step record.
C6_Pinned ==
    \A i \in DOMAIN points :
        points[i].type \in {"fixed", "bb"} =>
            /\ Solving => (x[i] = points[i].x /\ y[i] = points[i].y)
            /\ \A k \in DOMAIN steps :
                  steps[k].points[points[i].id] = InputPos(i)

C6_Witness ==
    /\ returned
    /\ points[1].type = "bb"
    /\ \E e \in DOMAIN edges : edges[e].ia = 1 /\ ~fixed[edges[e].ib]
    /\ steps[Len(steps)].points["b"] # InputPos(2)

\* C7 as stated: every member point of every body of type fixed, whatever
\* the number of its point ids, keeps its input (x, y) in every step record.
C7_AsStated ==
    returned =>
        \A k \in DOMAIN bodies : bodies[k].type = "fixed" =>
            \A i \in DOMAIN points :
                (\E j \in DOMAIN bodies[k].point_ids :
                    bodies[k].point_ids[j] = points[i].id)
                => \A r \in DOMAIN steps :
                      steps[r].points[points[i].id] = InputPos(i)

\* C7 (amended): every member point of every body of type fixed that has at
\* least two point ids keeps its input (x, y) in every step record, whatever
\* the types of the member points.
C7_FixedBody ==
    returned =>
        \A k \in Structural : bodies[k].type = "fixed" =>
            \A i \in DOMAIN points :
                (\E j \in DOMAIN bodies[k].point_ids :
                    bodies[k].point_ids[j] = points[i].id)
                => \A r \in DOMAIN steps :
                      steps[r].points[points[i].id] = InputPos(i)

C7_Witness ==
    /\ returned
    /\ \E k \in Structural :
          /\ bodies[k].type = "fixed"
          /\ bodies[k].point_ids = <<"b", "c">>
    /\ points[2].type = "rear_axle"
    /\ steps[Len(steps)].points["a"] # InputPos(1)

\* Every edge has its rest length in the input coordinates.
GeometrySatisfied ==
    \A e \in DOMAIN edges :
        Hypot(SubQ(points[edges[e].ib].x, points[edges[e].ia].x),
              SubQ(points[edges[e].ib].y, points[edges[e].ia].y)) = edges[e].L0

\* The target length the driver edge has at step 0.
DriverTargetAtZero ==
    TargetL(driver_edge_idx, edges[driver_edge_idx], driver_edge_idx,
            TargetShockLen(driver_L0, StrokeAt(driver_stroke, 0, n_steps)))

\* C8 as stated: at step 0 the driver's target is its rest length, and when
\* the input geometry satisfies every rest length the pose of step 0 is the
\* input pose.
C8_AsStated ==
    (returned /\ GeometrySatisfied) =>
        /\ DriverTargetAtZero = driver_L0
        /\ \A i \in DOMAIN points : steps[1].points[points[i].id] = InputPos(i)

\* C8 (amended): at step 0 the driver's target is max(1e-6, rest length);
\* when the input geometry satisfies every rest length and the driver's rest
\* length is at least 1e-6, that target is the rest length and the pose of
\* step 0 is the input pose, for any iterations >= 1.
C8_RestPose ==
    returned =>
        /\ DriverTargetAtZero = MaxQ(EpsTarget, driver_L0)
        /\ (GeometrySatisfied /\ LeQ(EpsTarget, driver_L0)) =>
              /\ DriverTargetAtZero = driver_L0
              /\ \A i \in DOMAIN points :
                    steps[1].points[points[i].id] = InputPos(i)

C8_Witness ==
    /\ returned
    /\ GeometrySatisfied
    /\ LeQ(EpsTarget, driver_L0)
    /\ iterations = 2
    /\ \E k \in StructuralShock : bodies[k].length0 # None
    /\ steps[1].points["b"] = InputPos(2)
    /\ steps[2].points["b"] # InputPos(2)

\* Whether no edge after e in the edge list touches an endpoint of e.
LastAtEndpoints(e) ==
    \A f \in DOMAIN edges :
        f > e => {edges[f].ia, edges[f].ib} \cap {edges[e].ia, edges[e].ib} = {}

FreeBar(e) ==
    /\ ~edges[e].is_shock
    /\ ~fixed[edges[e].ia]
    /\ ~fixed[edges[e].ib]

\* C9 as stated: in every recorded pose a bar edge with two free endpoints
\* has its rest length, also when an edge processed after it shares one of
\* its endpoints.
C9_AsStated ==
    returned =>
        \A r \in DOMAIN steps : \A e \in DOMAIN edges :
            FreeBar(e) =>
                PoseDist(steps[r].points, edges[e].ia, edges[e].ib) = edges[e].L0

\* C9 (amended): in every recorded pose a bar edge with two free endpoints
\* has its rest length, for any iterations >= 1, provided no edge after it
\* in the edge list touches one of its endpoints and its endpoints do not
\* coincide.
C9_LastBar ==
    returned =>
        \A r \in DOMAIN steps : \A e \in DOMAIN edges :
            (FreeBar(e) /\ LastAtEndpoints(e)) =>
                \/ PoseDist(steps[r].points, edges[e].ia, edges[e].ib)
                      = edges[e].L0
                \/ PoseDist(steps[r].points, edges[e].ia, edges[e].ib) = Zero

C9_Witness ==
    /\ returned
    /\ \E e \in DOMAIN edges :
          /\ FreeBar(e)
          /\ LastAtEndpoints(e)
          /\ edges[e].ia = 2
          /\ edges[e].ib = 3
          /\ steps[Len(steps)].points["c"] # InputPos(3)
          /\ PoseDist(steps[Len(steps)].points, 2, 3) = edges[e].L0

HasRearAxle == \E i \in DOMAIN points : points[i].type = "rear_axle"

\* The finite difference of rear travel over shock stroke at record r > 1.
TravelSlope(r) ==
    DivQ(SubQ(steps[r].rear_travel[1], steps[r - 1].rear_travel[1]),
         SubQ(steps[r].shock_stroke, steps[r - 1].shock_stroke))

\* C10 as stated: in every result leverage_ratio is None at step 0, and at
\* every later step whose shock_stroke differs from the previous one it is
\* the finite difference; it is None only at step 0 or for an equal stroke.
C10_AsStated ==
    returned =>
        /\ steps[1].leverage_ratio = None
        /\ \A r \in 2..Len(steps) :
              /\ steps[r].shock_stroke # steps[r - 1].shock_stroke =>
                    /\ steps[r].leverage_ratio # None
                    /\ steps[r].leverage_ratio[1] = TravelSlope(r)
              /\ steps[r].leverage_ratio = None
                    => steps[r].shock_stroke = steps[r - 1].shock_stroke

\* C10 (amended): leverage_ratio is None at step 0; at a later step it is
\* defined exactly when a rear_axle point exists and the stroke differs from
\* the previous step's by more than 1e-9, and it is then the finite
\* difference of rear travel over stroke.
C10_Leverage ==
    returned =>
        /\ steps[1].leverage_ratio = None
        /\ \A r \in 2..Len(steps) :
              /\ steps[r].leverage_ratio # None
                    <=> /\ HasRearAxle
                        /\ GtQ(AbsQ(SubQ(steps[r].shock_stroke,
                                         steps[r - 1].shock_stroke)), EpsStroke)
              /\ steps[r].leverage_ratio # None
                    => steps[r].leverage_ratio[1] = TravelSlope(r)

C10_Witness ==
    /\ returned
    /\ HasRearAxle
    /\ Len(steps) = 3
    /\ steps[2].leverage_ratio # None
    /\ steps[2].leverage_ratio[1] # Zero
    /\ steps[3].leverage_ratio # steps[2].leverage_ratio

\* The first point of type rear_axle in input order.
FirstRearAxle ==
    CHOOSE i \in DOMAIN points :
        /\ points[i].type = "rear_axle"
        /\ \A j \in 1..(i - 1) : points[j].type # "rear_axle"

\* C11: with a rear_axle point (the first one in input order), rear_travel
\* of every step is that point's input y minus its y in the step's pose and
\* rear_axle_point_id is its id; without one, rear_travel and leverage_ratio
\* are None at every step and rear_axle_point_id is None.
C11_RearTravel ==
    returned =>
        IF HasRearAxle
        THEN /\ rear_axle_point_id = Some(points[FirstRearAxle].id)
             /\ \A r \in DOMAIN steps :
                   steps[r].rear_travel =
                       Some(SubQ(points[FirstRearAxle].y,
                                 steps[r].points[points[FirstRearAxle].id][2]))
        ELSE /\ rear_axle_point_id = None
             /\ \A r \in DOMAIN steps :
                   /\ steps[r].rear_travel = None
                   /\ steps[r].leverage_ratio = None

C11_Witness ==
    /\ returned
    /\ points[2].type = "rear_axle"
    /\ rear_axle_point_id = Some("b")
    /\ steps[1].rear_travel = Some(Zero)
    /\ steps[Len(steps)].rear_travel # Some(Zero)
    /\ steps[Len(steps)].points["b"] # InputPos(2)

\* The geometry builder has returned its model.
Built == pc # "call" /\ error = ErrNone

\* The (body, segment) each edge comes from, in the order of the edge list.
RECURSIVE Owners(_)
Owners(k) ==
    IF k > Len(bodies) THEN <<>>
    ELSE (IF k \in Structural
          THEN [j \in 1..Len(SegPairs(bodies[k])) |-> <<k, j>>]
          ELSE <<>>) \o Owners(k + 1)

OwnerBody(e) == bodies[Owners(1)[e][1]]
OwnerSeg(e) == SegPairs(OwnerBody(e))[Owners(1)[e][2]]

\* The distance between two point ids in the input coordinates.
PointOf(id) == CHOOSE i \in DOMAIN points : points[i].id = id
InputDist(seg) ==
    Hypot(SubQ(points[PointOf(seg[2])].x, points[PointOf(seg[1])].x),
          SubQ(points[PointOf(seg[2])].y, points[PointOf(seg[1])].y))

\* C12 as stated: the rest length of every edge is its body's length0 when
\* the body supplies one, whatever the body's type, and the distance of its
\* endpoints in the input coordinates otherwise.
C12_AsStated ==
    Built =>
        /\ Len(edges) = Len(Owners(1))
        /\ \A e \in DOMAIN edges :
              edges[e].L0 = IF OwnerBody(e).length0 # None
                            THEN OwnerBody(e).length0[1]
                            ELSE InputDist(OwnerSeg(e))

\* C12 (amended): the rest length of an edge of the shock body is the body's
\* length0 when supplied and the input distance of its endpoints otherwise;
\* the rest length of an edge of any other body is the input distance of its
\* endpoints, whether the body supplies length0 or not.
C12_RestLength ==
    Built =>
        /\ Len(edges) = Len(Owners(1))
        /\ \A e \in DOMAIN edges :
              edges[e].L0 = IF OwnerBody(e).type = "shock"
                               /\ OwnerBody(e).length0 # None
                            THEN OwnerBody(e).length0[1]
                            ELSE InputDist(OwnerSeg(e))

C12_Witness ==
    /\ Built
    /\ \E e \in DOMAIN edges :
          /\ OwnerBody(e).type = "bar"
          /\ OwnerBody(e).length0 = Some(Q(2))
          /\ edges[e].L0 = Q(3)
    /\ \E e \in DOMAIN edges :
          /\ OwnerBody(e).type = "shock"
          /\ OwnerBody(e).length0 = Some(Q(2))
          /\ edges[e].L0 = Q(2)
          /\ InputDist(OwnerSeg(e)) = Q(3)

\* The endpoints of the edge corrected last coincided before the correction.
LastCoincident ==
    /\ last_edge # 0
    /\ prev_x[edges[last_edge].ia] = prev_x[edges[last_edge].ib]
    /\ prev_y[edges[last_edge].ia] = prev_y[edges[last_edge].ib]

\* A call that passed the geometry builder, with n_steps, iterations >= 1.
Accepted ==
    /\ pc # "call"
    /\ error = ErrNone
    /\ arg_n_steps >= 1
    /\ arg_iterations >= 1

\* The statements executed so far, and their number in a whole run.
Progress == corrections + Len(steps)
Budget ==
    (arg_n_steps + 1) * arg_iterations * Len(edges) + arg_n_steps + 1

\* C13: a call that passed the geometry builder never raises and never
\* stops before it has returned; every step it takes is one more of a fixed
\* budget of edge corrections and step records, so it terminates; and it
\* returns after exactly (n_steps + 1) * iterations passes over the edge
\* list, also when the endpoints of an edge coincide.
C13_Terminates ==
    /\ [](Accepted =>
            /\ Progress <= Budget
            /\ passes <= (arg_n_steps + 1) * arg_iterations
            /\ pc # "done" =>
                  /\ pc \in {"relax", "record"}
                  /\ ei \in DOMAIN edges
                  /\ driver_edge_idx \in DOMAIN edges
            /\ pc = "done" =>
                  /\ returned
                  /\ passes = (arg_n_steps + 1) * arg_iterations
                  /\ corrections = passes * Len(edges)
                  /\ Progress = Budget)
    /\ [][Accepted => (Progress' = Progress + 1 /\ error' = ErrNone)]_vars

C13_Witness ==
    /\ returned
    /\ LastCoincident
    /\ Len(edges) > 1
    /\ edges[last_edge].is_shock
    /\ edges[last_edge].L0 = Q(3)
    /\ points[2].y = Zero
    /\ passes = (arg_n_steps + 1) * arg_iterations
    /\ passes = 6

\* The calls that have finished, with their arguments and outcomes.
Finished ==
    earlier
    \cup (IF pc = "done" THEN {Outcome(Frame)} ELSE {})
    \cup (IF parked # <<>> /\ parked.pc = "done" THEN {Outcome(parked)} ELSE {})

SameArgs(o1, o2) ==
    /\ o1.points = o2.points
    /\ o1.bodies = o2.bodies
    /\ o1.n_steps = o2.n_steps
    /\ o1.iterations = o2.iterations

C15_InputsKept == [][points' = points /\ bodies' = bodies]_vars

C15_Witness ==
    /\ returned
    /\ y[2] # points[2].y
    /\ steps[Len(steps)].points["b"] = <<x[2], y[2]>>
    /\ points[2] = BikePoint("b", "free", Zero, Q(3))

\* A kinematics request has been answered with 200 and none is under way.
KinAnswered ==
    /\ pc = "idle"
    /\ kin = <<>>
    /\ response # <<>>
    /\ response.status = 200

\* The stored bodies and the stored scale, and the stroke (mm) of the shock
\* body of a list of bodies that drives the linkage.
StoredBodies == ValidBodies(bike.bodies)
StoredScale == bike.geometry.scale_mm_per_px[1]
StrokeOf(bods) ==
    LET k == CHOOSE k \in DOMAIN bods :
                /\ bods[k].type = "shock"
                /\ Len(bods[k].point_ids) >= 2
    IN  bods[k].stroke[1]
StoredStroke == StrokeOf(StoredBodies)

\* The step reads the bike document for a kinematics request and calls the
\* solver.
KinReads == kin = <<>> /\ kin' # <<>>

\* The step answers a kinematics request with 200.
KinAnswers == kin # <<>> /\ kin' = <<>> /\ response'.status = 200

\* C16: a kinematics request gives the solver every stored shock stroke
\* divided by the stored scale_mm_per_px and every other body as stored;
\* when it is answered with 200, shock_stroke, shock_length and rear_travel
\* of every returned step are the solver's values times the same scale, the
\* shock_stroke returned for the last step and the driver_stroke it stores
\* are the shock body's stroke in mm, and the returned points, the coords it
\* stores and leverage_ratio are the solver's values.
C16_Units ==
    [][/\ KinReads =>
            /\ kin'.bodies = StoredBodies
            /\ kin'.scale = StoredScale
            /\ Len(bodies') = Len(StoredBodies)
            /\ \A k \in DOMAIN bodies' :
                  IF StoredBodies[k].type = "shock"
                     /\ StoredBodies[k].stroke # None
                  THEN bodies'[k] =
                         [StoredBodies[k] EXCEPT
                            !.stroke = Some(DivQ(StoredBodies[k].stroke[1],
                                                 StoredScale))]
                  ELSE bodies'[k] = StoredBodies[k]
       /\ KinAnswers =>
            /\ Len(response'.steps) = Len(steps)
            /\ \A i \in DOMAIN steps :
                  /\ response'.steps[i].step_index = steps[i].step_index
                  /\ response'.steps[i].shock_stroke
                        = MulQ(steps[i].shock_stroke, kin.scale)
                  /\ response'.steps[i].shock_length
                        = MulQ(steps[i].shock_length, kin.scale)
                  /\ response'.steps[i].rear_travel
                        = IF steps[i].rear_travel = None THEN None
                          ELSE Some(MulQ(steps[i].rear_travel[1], kin.scale))
                  /\ response'.steps[i].points = steps[i].points
                  /\ response'.steps[i].leverage_ratio = steps[i].leverage_ratio
            /\ response'.steps[Len(steps)].shock_stroke = StrokeOf(kin.bodies)
            /\ BikeFound(kin.bike_id, kin.user) =>
                  /\ \A i \in DOMAIN steps :
                        /\ bike'.kinematics[1].steps[i].leverage_ratio
                              = steps[i].leverage_ratio
                        /\ bike'.kinematics[1].steps[i].shock_stroke
                              = response'.steps[i].shock_stroke
                  /\ bike'.kinematics[1].driver_stroke
                        = Some(StrokeOf(kin.bodies))
                  /\ \A j \in DOMAIN bike'.points :
                        ValidPoint(bike'.points[j]) =>
                            bike'.points[j].coords =
                                [i \in DOMAIN steps |->
                                    steps[i].points[bike'.points[j].id]]]_vars

\* A request answered with 200 on a scale of 1/2 mm per px: the solver ran
\* on a stroke of 2 px and the answer and the document hold 1 mm.
C16_Witness ==
    /\ KinAnswered
    /\ bike # <<>>
    /\ StoredScale = Frac(1, 2)
    /\ StoredStroke = Q(1)
    /\ Len(StoredBodies) = 3
    /\ Len(steps) = 3
    /\ steps[3].shock_stroke = Q(2)
    /\ response.steps[3].shock_stroke = Q(1)
    /\ bike.kinematics # None
    /\ bike.kinematics[1].driver_stroke = Some(Q(1))
    /\ response.steps[3].rear_travel # steps[3].rear_travel
    /\ response.steps[3].rear_travel # Some(Zero)
    /\ bike.points[2].coords[3] = steps[3].points["b"]
    /\ bike.points[2].coords[3] # <<bike.points[2].x, bike.points[2].y>>

\* A list without a repeated element.
NoRepeat(list) == \A i \in DOMAIN list : \A j \in DOMAIN list :
                      list[i] = list[j] => i = j

\* An update_one of an add_bike_to_shed request of client c takes place.
AddStep(c) ==
    /\ shed_reqs[c] # <<>>
    /\ shed_reqs[c].at = "update"
    /\ shed_reqs[c].op = "add"
    /\ shed_reqs'[c] # <<>>
    /\ shed_reqs'[c].at = "read"

\* C17: under every interleaving of add_bike_to_shed and
\* remove_bike_from_shed requests, the shed's bike_ids holds each bike id
\* at most once, every bike_count reported is the number of distinct bikes
\* of the bike_ids reported with it, and the update of an add request for a
\* bike that is in the shed leaves bike_ids as it is.
C17_NoDuplicates ==
    /\ [](/\ NoRepeat(shed.bike_ids)
          /\ \A c \in Clients :
                (shed_resp[c] # <<>> /\ shed_resp[c].status = 200) =>
                    /\ NoRepeat(shed_resp[c].bike_ids)
                    /\ shed_resp[c].bike_count
                          = Cardinality(Elems(shed_resp[c].bike_ids)))
    /\ [][\A c \in Clients :
            (AddStep(c) /\ shed_reqs[c].bike_id \in Elems(shed.bike_ids))
                => shed'.bike_ids = shed.bike_ids]_vars

C17_Witness ==
    /\ shed.bike_ids = <<"bike1", "bike3">>
    /\ shed.updated_at = 3
    /\ shed_resp[1] # <<>>
    /\ shed_resp[1].status = 200
    /\ shed_resp[1].bike_count = 2
    /\ shed_resp[2] # <<>>
    /\ shed_resp[2].status = 200
    /\ shed_resp[2].bike_count = 1
    /\ shed_ops = 3

\* The keys of the bike document other than those in `keys` are unchanged.
BikeKeptBut(keys) ==
    /\ bike' # <<>>
    /\ DOMAIN bike' = DOMAIN bike
    /\ \A k \in DOMAIN bike \ keys : bike'[k] = bike[k]

\* The step applies the update_one of the update_bodies request of client c
\* and answers it.
BodiesAnswered(c) ==
    /\ BikeWaits(c, "bodies")
    /\ bike_reqs'[c] = <<>>

\* C18 as stated: an update_bodies that reaches the database (no body id
\* repeated, a bike_id that parses) sets bodies to the payload, changes no
\* other field of the bike document and answers 200 when the bike exists
\* and is the caller's; else it changes no document and answers 404.
C18_AsStated ==
    [][\A c \in Clients :
          BodiesAnswered(c) =>
             IF BikeFound(bike_reqs[c].bike_id, bike_reqs[c].user)
             THEN /\ bike_resp'[c].status = 200
                  /\ bike'.bodies = BodyDicts(bike_reqs[c].payload)
                  /\ BikeKeptBut({"bodies"})
             ELSE /\ bike_resp'[c].status = 404
                  /\ bike' = bike]_vars

\* max(a, b) of two lengths, by comparison.
LongerOf(a, b) == IF LeQ(a, b) THEN b ELSE a

\* C19: the correction of the driver edge at step i uses the target length
\* max(1e-6, rest length - stroke * i / n_steps), which is positive; the
\* correction of any other edge uses that edge's rest length at every step.
C19_Targets ==
    [][corrections' = corrections + 1 =>
         LET rest == edges[ei].L0
             s_i == MulQ(driver_stroke, Frac(step_i, n_steps))
         IN  /\ edges' = edges
             /\ IF ei = driver_edge_idx
                THEN /\ target_L' = LongerOf(EpsTarget, SubQ(rest, s_i))
                     /\ GtQ(target_L', Zero)
                ELSE target_L' = rest]_vars

\* The driver has just been corrected at a step whose stroke exceeds its
\* rest length, towards the floor of 1e-6.
C19_Witness ==
    /\ last_edge # 0
    /\ last_edge = driver_edge_idx
    /\ step_i >= 1
    /\ pc = "relax"
    /\ ei # 1
    /\ GtQ(MulQ(driver_stroke, Frac(step_i, n_steps)), driver_L0)
    /\ target_L = EpsTarget

\* The edge corrected last, its endpoints and their pinned flags.
LastIa == edges[last_edge].ia
LastIb == edges[last_edge].ib

\* Point k is where it was before the last correction.
Stayed(k) == x[k] = prev_x[k] /\ y[k] = prev_y[k]

\* The edge vector before and after the last correction, and its length after.
EdgeBefore ==
    <<SubQ(prev_x[LastIb], prev_x[LastIa]), SubQ(prev_y[LastIb], prev_y[LastIa])>>
EdgeAfter == <<SubQ(x[LastIb], x[LastIa]), SubQ(y[LastIb], y[LastIa])>>
LengthAfter == Hypot(EdgeAfter[1], EdgeAfter[2])

\* w is v scaled by a factor that is not negative.
AlongQ(w, v) ==
    /\ \A c \in 1..2 :
          IF v[c] = Zero THEN w[c] = Zero ELSE ~LtQ(DivQ(w[c], v[c]), Zero)
    /\ (v[1] # Zero /\ v[2] # Zero) => DivQ(w[1], v[1]) = DivQ(w[2], v[2])

\* The edge has its target length and the direction it had.
OnTarget == LengthAfter = target_L /\ AlongQ(EdgeAfter, EdgeBefore)

\* The midpoint of the edge is where it was.
MidpointKept ==
    /\ AddQ(x[LastIa], x[LastIb]) = AddQ(prev_x[LastIa], prev_x[LastIb])
    /\ AddQ(y[LastIa], y[LastIb]) = AddQ(prev_y[LastIa], prev_y[LastIb])

\* What a correction does to an edge, by the pinned flags of its endpoints.
ByPinnedFlags ==
    /\ \A k \in DOMAIN x \ {LastIa, LastIb} : Stayed(k)
    /\ (fixed[LastIa] /\ fixed[LastIb]) => Stayed(LastIa) /\ Stayed(LastIb)
    /\ (fixed[LastIa] /\ ~fixed[LastIb]) => Stayed(LastIa) /\ OnTarget
    /\ (~fixed[LastIa] /\ fixed[LastIb]) => Stayed(LastIb) /\ OnTarget
    /\ (~fixed[LastIa] /\ ~fixed[LastIb]) => OnTarget /\ MidpointKept

\* C20 as stated: every correction follows the pinned flags and, unless both
\* endpoints are pinned, leaves the edge at its target length.
C20_AsStated == last_edge # 0 => ByPinnedFlags

\* C20 (amended): a correction of an edge whose endpoints did not coincide
\* changes at most the two endpoints and follows the pinned flags: both
\* pinned, nothing moves; one pinned, only the free endpoint moves, along
\* the edge, and the edge has its target length; both free, the edge has its
\* target length and its midpoint stays.  A correction of an edge whose
\* endpoints coincide moves nothing, whatever the flags and the target.
C20_Correction ==
    last_edge # 0 =>
        IF LastCoincident THEN \A k \in DOMAIN x : Stayed(k)
        ELSE ByPinnedFlags

\* A correction that moved both endpoints of an edge by half each.
C20_Witness ==
    /\ last_edge # 0
    /\ ~LastCoincident
    /\ ~fixed[LastIa]
    /\ ~fixed[LastIb]
    /\ ~Stayed(LastIa)
    /\ ~Stayed(LastIb)
    /\ LengthAfter = target_L
    /\ MidpointKept

\* The edges in declaration order: each <<body, segment>> of the bodies with
\* at least two point ids, bodies in input order, segments in chain order.
RECURSIVE Declared(_)
Declared(k) ==
    IF k > Len(bodies) THEN <<>>
    ELSE (IF Len(bodies[k].point_ids) >= 2
          THEN [j \in 1..SegCount(k) |-> <<k, j>>]
          ELSE <<>>) \o Declared(k + 1)

\* Segment j of a chain of point ids: the j-th consecutive pair, or, after
\* the last pair, the wrap-around from the last id to the first.
ChainSeg(pids, j) ==
    IF j < Len(pids) THEN <<pids[j], pids[j + 1]>> ELSE <<pids[Len(pids)], pids[1]>>

\* Edge e joins the points of the e-th declared segment.
IsDeclared(e) ==
    LET d == Declared(1)[e]
        seg == ChainSeg(bodies[d[1]].point_ids, d[2])
    IN  /\ points[edges[e].ia].id = seg[1]
        /\ points[edges[e].ib].id = seg[2]

\* C21: the corrections of an iteration take the edges one at a time in
\* declaration order, and each works on the positions as the earlier
\* corrections of the same iteration left them: it keeps every point that
\* is not an endpoint of its edge where the last correction put it, and it
\* brings its edge to the target length from there.
C21_GaussSeidel ==
    [][corrections' = corrections + 1 =>
         LET e == (corrections % Len(edges)) + 1
             ia == edges[e].ia
             ib == edges[e].ib
         IN  /\ Len(edges) = Len(Declared(1))
             /\ IsDeclared(e)
             /\ last_edge' = e
             /\ \A k \in DOMAIN x \ {ia, ib} : x'[k] = x[k] /\ y'[k] = y[k]
             /\ (/\ ~(fixed[ia] /\ fixed[ib])
                 /\ <<x[ia], y[ia]>> # <<x[ib], y[ib]>>)
                => Hypot(SubQ(x'[ib], x'[ia]), SubQ(y'[ib], y'[ia])) = target_L']_vars

\* The second or a later edge of an iteration has been brought to its target
\* after an earlier correction of the same iteration had moved one of its
\* endpoints and a point that is not its endpoint.
C21_Witness ==
    /\ last_edge >= 2
    /\ \E k \in {LastIa, LastIb} :
          <<prev_x[k], prev_y[k]>> # <<iter_start[1][k], iter_start[2][k]>>
    /\ \E k \in DOMAIN x \ {LastIa, LastIb} :
          /\ <<prev_x[k], prev_y[k]>> # <<iter_start[1][k], iter_start[2][k]>>
          /\ Stayed(k)
    /\ ~LastCoincident
    /\ LengthAfter = target_L
    /\ ~Stayed(LastIa) \/ ~Stayed(LastIb)

\* Point i is pinned by its own type, or as a member of a body of type fixed
\* that has at least two point ids.
PinnedByInput(i) ==
    \/ points[i].type \in {"fixed", "bb"}
    \/ \E k \in DOMAIN bodies :
          /\ Len(bodies[k].point_ids) >= 2
          /\ bodies[k].type = "fixed"
          /\ \E j \in DOMAIN bodies[k].point_ids :
                bodies[k].point_ids[j] = points[i].id

\* C22: whenever the geometry builder returns, the edge list holds, body by
\* body, the k - 1 consecutive pairs of each body with k >= 2 point ids and
\* one wrap-around pair more when the body is closed and k > 2; a body with
\* fewer than 2 point ids has no edge, pins no point and is not the driver.
C22_Segments ==
    Built =>
        /\ Len(edges) = Len(Declared(1))
        /\ \A e \in DOMAIN edges :
              /\ IsDeclared(e)
              /\ Len(bodies[Declared(1)[e][1]].point_ids) >= 2
              /\ edges[e].is_shock = (bodies[Declared(1)[e][1]].type = "shock")
        /\ \A k \in DOMAIN bodies :
              Cardinality({e \in DOMAIN edges : Declared(1)[e][1] = k})
                = IF Len(bodies[k].point_ids) < 2 THEN 0
                  ELSE Len(bodies[k].point_ids) - 1
                       + (IF bodies[k].closed /\ Len(bodies[k].point_ids) > 2
                          THEN 1 ELSE 0)
        /\ \A i \in DOMAIN points : fixed[i] = PinnedByInput(i)
        /\ Len(bodies[Declared(1)[driver_edge_idx][1]].point_ids) >= 2

\* A closed chain of three ids with its wrap-around edge, beside a shock
\* body of two ids.
C22_Witness ==
    /\ Built
    /\ Len(edges) = 4
    /\ \E k \in DOMAIN bodies :
          /\ bodies[k].closed
          /\ bodies[k].point_ids = <<"a", "b", "c">>
    /\ \E e \in DOMAIN edges :
          /\ points[edges[e].ia].id = "c"
          /\ points[edges[e].ib].id = "a"

\* The distance between the points with ids a and b in a recorded pose.
RecordedDist(pose, a, b) ==
    Hypot(SubQ(pose[b][1], pose[a][1]), SubQ(pose[b][2], pose[a][2]))

\* C23: the record appended for a step maps exactly the input point ids,
\* each to the position its point has when the relaxation of the step is
\* over, and its shock_length is the distance between the two endpoints of
\* the driver edge in that mapping; a record is not changed afterwards.
C23_Record ==
    [][/\ \A r \in DOMAIN steps : r \in DOMAIN steps' /\ steps'[r] = steps[r]
       /\ Len(steps') > Len(steps) =>
            LET rec == steps'[Len(steps')]
                d == edges[driver_edge_idx]
            IN  /\ Len(steps') = Len(steps) + 1
                /\ pc = "record"
                /\ DOMAIN rec.points = {points[i].id : i \in DOMAIN points}
                /\ \A i \in DOMAIN points :
                      rec.points[points[i].id] = <<x[i], y[i]>>
                /\ rec.shock_length
                     = RecordedDist(rec.points, points[d.ia].id,
                                    points[d.ib].id)]_vars

\* A run of three steps has returned; its last record holds a point away
\* from its input position and a shock shorter than its rest length.
C23_Witness ==
    /\ returned
    /\ Len(steps) = 3
    /\ Len(points) = 3
    /\ DOMAIN steps[3].points = {"a", "b", "c"}
    /\ \E i \in DOMAIN points :
          /\ steps[3].points[points[i].id] # InputPos(i)
          /\ steps[3].points[points[i].id] = <<x[i], y[i]>>
    /\ LtQ(steps[3].shock_length, driver_L0)
    /\ GtQ(steps[3].shock_length, Zero)

\* C24: whenever the geometry builder returns, exactly one edge is a shock
\* edge and driver_edge_idx is its index, driver_L0 is its rest length,
\* driver_stroke is the stroke of the shock body, fixed has one flag per
\* point, and the endpoints of every edge are indices of the point list.
C24_BuilderResult ==
    Built =>
        /\ Cardinality({e \in DOMAIN edges : edges[e].is_shock}) = 1
        /\ driver_edge_idx \in DOMAIN edges
        /\ edges[driver_edge_idx].is_shock
        /\ driver_L0 = edges[driver_edge_idx].L0
        /\ \E k \in DOMAIN bodies :
              /\ bodies[k].type = "shock"
              /\ Len(bodies[k].point_ids) >= 2
              /\ bodies[k].stroke = Some(driver_stroke)
              /\ \A m \in DOMAIN bodies :
                    (bodies[m].type = "shock" /\ Len(bodies[m].point_ids) >= 2)
                    => m = k
        /\ DOMAIN fixed = DOMAIN points
        /\ \A i \in DOMAIN fixed : fixed[i] \in BOOLEAN
        /\ \A e \in DOMAIN edges :
              edges[e].ia \in DOMAIN points /\ edges[e].ib \in DOMAIN points

\* The builder has returned from a bar of two edges followed by the shock
\* body: the driver is the third edge.
C24_Witness ==
    /\ Built
    /\ Len(edges) = 3
    /\ driver_edge_idx = 3
    /\ edges[3].is_shock
    /\ ~edges[1].is_shock
    /\ driver_stroke = Q(1)
    /\ driver_L0 = Q(3)

\* The pose of a record, as position arrays in the order of the input points.
PoseX(rec) == [i \in DOMAIN points |-> rec.points[points[i].id][1]]
PoseY(rec) == [i \in DOMAIN points |-> rec.points[points[i].id][2]]

\* C25: the first correction of step 0 starts from the input coordinates
\* and the first correction of every later step starts from the pose of the
\* record before it; recording a step changes no position.
C25_Carried ==
    [][/\ (Len(steps') = Len(steps) + 1) => (x' = x /\ y' = y)
       /\ (/\ corrections' = corrections + 1
           /\ corrections % (iterations * Len(edges)) = 0)
          => IF steps = <<>>
             THEN /\ x = [i \in DOMAIN points |-> points[i].x]
                  /\ y = [i \in DOMAIN points |-> points[i].y]
             ELSE /\ Len(steps) = step_i
                  /\ x = PoseX(steps[step_i])
                  /\ y = PoseY(steps[step_i])]_vars

\* Two consecutive steps of a run with the same stroke value and different
\* poses: the later one went on from the pose of the earlier one, which was
\* not the input pose.
C25_Witness ==
    /\ returned
    /\ Len(steps) = 3
    /\ steps[2].shock_stroke = steps[3].shock_stroke
    /\ steps[2].points # steps[3].points
    /\ \E i \in DOMAIN points : steps[2].points[points[i].id] # InputPos(i)

\* A count below 1 counts as 1.
Clamped(n) == IF n < 1 THEN 1 ELSE n

\* What a call returns, without its arguments.
ResultOf(o) == <<o.returned, o.error, o.steps, o.rear_axle_point_id>>

\* C26: a call with n_steps below 1 returns what the call with n_steps = 1
\* returns, two steps with shock_stroke 0 and the full stroke, and a call
\* with iterations below 1 returns what the call with iterations = 1
\* returns; none of them raises.
C26_Clamped ==
    /\ \A o1 \in Finished : \A o2 \in Finished :
          (/\ o1.points = o2.points
           /\ o1.bodies = o2.bodies
           /\ Clamped(o1.n_steps) = Clamped(o2.n_steps)
           /\ Clamped(o1.iterations) = Clamped(o2.iterations))
          => ResultOf(o1) = ResultOf(o2)
    /\ \A o \in Finished :
          /\ (o.n_steps < 1 \/ o.iterations < 1) => (o.returned /\ o.error = ErrNone)
          /\ o.n_steps < 1 =>
                /\ Len(o.steps) = 2
                /\ o.steps[1].shock_stroke = Zero
                /\ o.steps[2].shock_stroke = Q(1)

\* A call with n_steps = -2 and iterations = 0 has returned after the call
\* with n_steps = 1 and iterations = 1, and a call with 2 and 2 returned
\* something else.
C26_Witness ==
    /\ \E o1 \in Finished : \E o2 \in Finished :
          /\ o1.n_steps = -2 /\ o1.iterations = 0
          /\ o2.n_steps = 1 /\ o2.iterations = 1
          /\ o1.returned /\ o2.returned
          /\ o1.steps = o2.steps
          /\ Len(o1.steps) = 2
          /\ o1.steps[2].points["b"] # <<Zero, Q(3)>>

\* More than one input point has type rear_axle.
SeveralRearAxles ==
    Cardinality({i \in DOMAIN points : points[i].type = "rear_axle"}) >= 2

\* The input points with every rear_axle point but the first made free.
OthersFree ==
    [i \in DOMAIN points |->
        IF points[i].type = "rear_axle" /\ i # FirstRearAxle
        THEN [points[i] EXCEPT !.type = "free"] ELSE points[i]]

\* The y of the first rear_axle point in the pose of record r.
FirstRearY(r) == steps[r].points[points[FirstRearAxle].id][2]

\* C27: with two or more rear_axle points the call does not fail; the first
\* of them in input order is the reference of rear_travel, leverage_ratio
\* and rear_axle_point_id, and the geometry builder returns for the others
\* what it returns when their type is free.
C27_SeveralRearAxles ==
    SeveralRearAxles =>
        /\ pc = "done" => (returned /\ error = ErrNone)
        /\ Built =>
              LET m == build_internal_model(OthersFree, bodies)
              IN  /\ rear_axle_idx = FirstRearAxle
                  /\ m.err = ErrNone
                  /\ m.edges = edges
                  /\ m.fixed = fixed
                  /\ m.rear_axle_idx = rear_axle_idx
                  /\ m.driver_edge_idx = driver_edge_idx
        /\ returned =>
              /\ rear_axle_point_id = Some(points[FirstRearAxle].id)
              /\ \A r \in DOMAIN steps :
                    steps[r].rear_travel
                      = Some(SubQ(points[FirstRearAxle].y, FirstRearY(r)))
              /\ \A r \in 2..Len(steps) :
                    steps[r].leverage_ratio # None =>
                        steps[r].leverage_ratio[1]
                          = DivQ(SubQ(FirstRearY(r - 1), FirstRearY(r)),
                                 SubQ(steps[r].shock_stroke,
                                      steps[r - 1].shock_stroke))

\* A run with b and c both of type rear_axle has returned: b is the
\* reference and has travelled, c has moved too and by another amount.
C27_Witness ==
    /\ returned
    /\ points[2].type = "rear_axle"
    /\ points[3].type = "rear_axle"
    /\ rear_axle_point_id = Some("b")
    /\ steps[2].leverage_ratio # None
    /\ steps[2].rear_travel # Some(Zero)
    /\ steps[2].points["c"] # InputPos(3)
    /\ steps[2].rear_travel # Some(SubQ(points[3].y, steps[2].points["c"][2]))

\* The id, type, x and y of a stored point (<<>> for a key it has not).
Identity(p) ==
    [k \in {"id", "type", "x", "y"} |-> IF k \in DOMAIN p THEN <<p[k]>> ELSE <<>>]

\* A stored point but for its coords.
Uncoordinated(p) == [k \in DOMAIN p \ {"coords"} |-> p[k]]

\* C28 as stated: the write of compute_bike_kinematics keeps every stored
\* point, changing at most its coords; and when no request is under way the
\* stored points of the bike, unless it was deleted, have the id, type, x
\* and y of the last committed points update, if there was one.
C28_AsStated ==
    [][/\ (kin # <<>> /\ kin' = <<>> /\ response'.status = 200
               /\ bike # <<>>) =>
            /\ Len(bike'.points) = Len(bike.points)
            /\ \A k \in DOMAIN bike.points :
                  Uncoordinated(bike'.points[k]) = Uncoordinated(bike.points[k])
       /\ (kin' = <<>> /\ pts_req' = <<>> /\ pts_committed' # <<>>
               /\ bike' # <<>>) =>
            /\ Len(bike'.points) = Len(pts_committed'[1])
            /\ \A k \in DOMAIN bike'.points :
                  Identity(bike'.points[k]) = Identity(pts_committed'[1][k])]_vars

\* No hero image request is under way.
HeroQuiet == \A c \in Clients : hero_reqs[c] = <<>>

\* The hero_* media documents of the bike.
HeroDocsOfBike == {d \in media : d.bike_id = bike.id /\ IsHeroRole(d.role)}

\* The response given last is the 204 of a delete_hero_image.
DeletedLast ==
    \E c \in Clients :
        /\ hero_resp[c] # <<>>
        /\ hero_resp[c].op = "delete"
        /\ hero_resp[c].status = 204
        /\ \A k \in Clients :
              hero_resp[k] # <<>> => hero_resp[k].order <= hero_resp[c].order

\* C29 as stated: when every request has completed, hero_media_id, when
\* set, is the id of an existing media document and the hero_* documents of
\* the bike are those of the upload that inserted it; without a
\* hero_media_id, and after a completed delete_hero_image, the bike has no
\* hero_* document and no hero_media_id.
C29_AsStated ==
    HeroQuiet =>
        /\ bike.hero_media_id # None =>
              /\ \E d \in media : d.id = bike.hero_media_id[1]
              /\ \A d \in HeroDocsOfBike : d.id[1] = bike.hero_media_id[1][1]
        /\ bike.hero_media_id = None => HeroDocsOfBike = {}
        /\ DeletedLast => (bike.hero_media_id = None /\ HeroDocsOfBike = {})

(***************************************************************************)
(* C30: only the owner of a shed reads or changes it, and only bikes of    *)
(* the owner are added.                                                    *)
(***************************************************************************)
\* The request client c began last was made for a shed of the collection by
\* a user who is not its owner.
ByAnother(c) ==
    /\ shed_calls[c] # <<>>
    /\ shed_calls[c].found # <<>>
    /\ shed_calls[c].found.id = shed_calls[c].shed_id
    /\ shed_calls[c].found.owner_id # shed_calls[c].user

\* The bike id of the request, where it has one, parses as an ObjectId.
BikeIdParses(c) ==
    shed_calls[c].op \in {"add", "remove"} => shed_calls[c].bike_id \in ShedOids

\* The request of client c is over, answered 403 "Not your shed".
Refused(c) ==
    /\ shed_reqs[c] = <<>>
    /\ shed_resp[c] = HTTP(403, "Not your shed")

\* Every bike of the shed is a bike of the shed's owner.
BikesOfOwner ==
    shed # <<>> =>
        \A b \in Elems(shed.bike_ids) :
            b \in DOMAIN bike_owners /\ bike_owners[b] = shed.owner_id

\* A step that begins a request of another user leaves the shed as it is.
RefusalKeepsShed ==
    \A c \in Clients :
        (shed_calls'[c] # shed_calls[c] /\ ByAnother(c)') => shed' = shed

\* A step that adds a bike id to the shed adds a bike of the shed's owner.
AddsOwnBikeOnly ==
    (shed # <<>> /\ shed' # <<>>) =>
        \A b \in Elems(shed'.bike_ids) \ Elems(shed.bike_ids) :
            b \in DOMAIN bike_owners /\ bike_owners[b] = shed.owner_id

\* C30 as stated: each of the five requests made by a user who is not the
\* owner of the shed is answered 403, and every bike of a shed is a bike of
\* its owner.
C30_AsStated ==
    /\ \A c \in Clients : ByAnother(c) => Refused(c)
    /\ BikesOfOwner

\* C30: each of the five requests made with ids that parse by a user who is
\* not the owner of the shed is answered 403 "Not your shed" and leaves the
\* shed document as it was (with a bike id that does not parse, the answer
\* of add_bike_to_shed and remove_bike_from_shed is 400 and the shed is left
\* as it was too); a bike id is added to the shed only when the bike is a
\* bike of the shed's owner, so every bike of a shed is a bike of its owner.
C30_OwnerOnly ==
    /\ [](\A c \in Clients : (ByAnother(c) /\ BikeIdParses(c)) => Refused(c))
    /\ []BikesOfOwner
    /\ [][RefusalKeepsShed /\ AddsOwnBikeOnly]_vars

\* The owner has added a second bike of theirs and was refused a bike of
\* another user; then another user asked to delete the shed and was
\* refused, the shed being as the owner left it.
C30_Witness ==
    /\ ByAnother(1)
    /\ shed_calls[1].op = "delete"
    /\ Refused(1)
    /\ shed # <<>>
    /\ shed.bike_ids = <<"bike1", "bike3">>
    /\ shed_resp[2] = HTTP(403, "You do not own this bike")
    /\ shed_ops = 3

====
